---- MODULE Spec2Model ----
(***************************************************************************)
(* A model of the raze path tracer: the pixel iterator and the chunk       *)
(* iterators (scene.rs, utils.rs), the linear congruential generator and   *)
(* its thread-local instance (rand.rs), the image buffer (img/image.rs)    *)
(* and the parallel render scheduler described in section 4.6 of the       *)
(* specification.                                                          *)
(*                                                                         *)
(* Option<T> is modelled as a sequence of length at most one: <<>> is      *)
(* None and <<v>> is Some(v).                                              *)
(***************************************************************************)
EXTENDS Integers, Sequences, FiniteSets, TLC

VARIABLES
    chunk_iter,   \* ChunkIter<_, DisplayIter, Vec<_>> being iterated
    chunks_out,   \* the chunks its next() has returned, in order
    chunk_end,    \* TRUE once its next() has returned None
    range_chunks, \* RangeChunks over 0..display.size()
    ranges_out,   \* the ranges its next() has returned, in order
    range_end,    \* TRUE once its next() has returned None
    lcg_seed,     \* the seed both explicitly seeded generators were created from
    lcg,          \* the two generators' states
    lcg_out,      \* the words each generator's next() has returned, in order
    cursor,       \* the shared chunk cursor: the ChunkIter behind the mutex
    mutex,        \* the worker holding the cursor's lock, 0 when it is free
    pc,           \* each worker's position: idle, locked, render, exited, panicked
    todo,         \* each worker's pixels still to render of the chunk it holds
    got,          \* each worker's popped chunks, in order
    saw_end,      \* the workers whose pop found the cursor exhausted
    wrote,        \* the pixel coordinates each worker has written
    bufs,         \* each worker's private image buffer
    progress,     \* the shared progress counter: chunks completed
    thread_lcg,   \* THREAD_LCG of each worker thread: None until first used
    tl_seed,      \* the seed each thread's generator was created from
    seen,         \* the words each thread has drawn, in order
    main_pc,      \* the main thread: poll, join, merge, done, fatal
    joined,       \* the number of worker handles joined so far
    image,        \* the merged image, None until the merge has run
    golden,       \* the image of an earlier render of the same scene, if any
    merge_in,     \* buffers handed to the merge, in the order it visits them
    merge_out,    \* the image the merge made of them, None before it has run
    mat,           \* the Mat3x3 that inverse() is called on
    mat_result,    \* None before the call, then Some of the Option<Mat3x3> returned
    sphere,        \* the Sphere that ray_intersection is called on
    sphere_ray,    \* the ray it is called with
    sphere_incl,   \* the include_start it is called with
    sphere_hit,    \* None before the call, then Some of the Option<Collision> returned
    slice_shapes,  \* the slice of shapes that ray_intersection is called on
    slice_ray,     \* the ray it is called with
    slice_incl,    \* the include_start it is called with
    slice_hit,     \* None before the call, then Some of the Option<Collision> returned
    tri_vertices,  \* the vertices a, b, c of the one triangle the mesh is made of
    tri_pc,        \* new before TriangleMesh::new, then built or panicked, then done
    tri_mesh,      \* the TriangleMesh, None until it is built
    tri_point,     \* the point P of the triangle that the ray is aimed at
    tri_ray,       \* the ray ray_intersection is called with
    tri_incl,      \* the include_start it is called with
    tri_hit,       \* the Option<Collision> returned
    sees_scene,    \* the Scene that sees_light is called on: its light and its world
    sees_pos,      \* the position it is called with
    sees_result,   \* None before the call, then Some of the bool returned
    cast_bounces,  \* the bounces argument of the outermost cast_ray call
    cast_stack,    \* the bounces argument of every cast_ray call not yet returned, outermost first
    cast_hits,     \* for every intersect_exclusive test made so far, whether it hit
    cast_lit,      \* the bounces argument of every call that evaluated the direct lighting
    cast_result,   \* None while a call is tracing, then Some of the Color being returned
    diter,         \* the DisplayIter that next() and next_back() are called on
    diter_front,   \* the items next() has returned, in order
    diter_back,    \* the items next_back() has returned, in order
    diter_last,    \* the last call and the Option it returned; <<>> before the first call
    cp_a,          \* the items of the first iterator given to cartesian_product
    cp_b,          \* the items of the second iterator given to cartesian_product
    cp,            \* the CartesianProduct; <<>> when there is none
    cp_out,        \* the pairs next() has returned, in order
    cp_last,       \* <<r>> for the Option r that the last next() returned; <<>> before the first call
    cseq_len,      \* the length of the sequence 0..len that the ChunkIter is made over
    cseq_iter,     \* the ChunkIter over the sequence; <<>> when there is none
    cseq_out,      \* the chunks next() has returned, in order
    cseq_last,     \* <<r>> for the Option r that the last next() returned; <<>> before the first call
    rchunks_range, \* the range <<s, e>> given to RangeChunks::new
    rchunks,       \* the RangeChunks; <<>> when there is none
    rchunks_out,   \* the sub-ranges next() has returned, in order
    rchunks_last,  \* <<r>> for the Option r that the last next() returned; <<>> before the first call
    rgb_color,     \* the Color that to_rgb_bytes is called on
    rgb_bytes,     \* None before the call, then Some of the [u8; 3] returned
    qoi_image,     \* the Image the QOIWriter is made from
    qoi_pc,        \* where write_to is: "start", "pixels" or "done"
    qoi_px,        \* the number of pixels of data() the loop has taken
    qoi_index,     \* write_to's index: 64 QOIColors
    qoi_prev,      \* write_to's prev_color
    qoi_run,       \* write_to's run
    qoi_out,       \* the byte slices given to writer.write_all, in order
    mul_a,         \* the matrix a of &a * &b and of a *= &b, before either
    mul_b,         \* the matrix b
    mul_v,         \* the vector the products are applied to
    mul_product,   \* None, then Some of the matrix &a * &b returns
    mul_assigned,  \* None, then Some of the matrix a *= &b leaves in a
    img_buf,       \* the Image written through at_mut and read through at
    img_xy,        \* the coordinates <<x, y>> used for both
    img_stored,    \* None, then Some of the color stored through at_mut(x, y)
    img_read       \* None, then Some of the color at(x, y) returned

chunk_vars == <<chunk_iter, chunks_out, chunk_end, range_chunks, ranges_out, range_end>>

lcg_vars == <<lcg_seed, lcg, lcg_out>>

worker_vars == <<cursor, mutex, pc, todo, got, saw_end, wrote, bufs, progress>>

rand_vars == <<thread_lcg, tl_seed, seen>>

main_vars == <<main_pc, joined, image>>

render_vars == <<worker_vars, rand_vars, main_vars, golden>>

merge_vars == <<merge_in, merge_out>>

None == <<>>

Some(v) == <<v>>

\* F applied to the value of e: e is evaluated once, however often F reads it.
With(e, F(_)) == CHOOSE y \in {F(x) : x \in {e}} : TRUE

\* ------------------------------------------------------------------ bounds

\* Largest display width and height the chunking specification draws.
MaxW == 3

MaxH == 3

\* Largest chunk size the chunking specification draws.
MaxChunk == 4

\* Most words drawn from one explicitly seeded generator.
MaxDraws == 5

\* The display rendered, the chunk size of the cursor and the number of worker
\* threads of the render specifications.
RenderW == 2

RenderH == 2

RenderChunk == 3

NumWorkers == 2

\* The number of buffers merged and of cells in each, in the merge specification.
MergeBufs == 2

MergeCells == 2

\* The largest entry of the matrices inverted.
MatMax == 1

\* The spheres intersected: centres up to SphereMax from the origin on each axis,
\* radii up to MaxRadius.
SphereMax == 2

MaxRadius == 2

\* The slices of shapes intersected: up to MaxShapes spheres with centres up to
\* SliceMax from the origin.
MaxShapes == 3

SliceMax == 3

\* The triangles intersected lie up to TriMax from the world origin, and the rays
\* start up to MaxDist from the point they are aimed at.
TriMax == 2

MaxDist == 3

\* The light of the shadow test is up to LightMax from the position tested.
LightMax == 3

\* The largest bounce budget cast_ray is called with, and the largest value of
\* the direct lighting at the last hit.
MaxBounces == 5
MaxGray == 1

\* The largest numbers of items of the two iterators of a cartesian product.
MaxA == 4
MaxB == 4

\* The longest sequence a ChunkIter or a RangeChunks is made over.
MaxSeq == 7

\* The channels of a color are the fractions k / ChanDen for k from -ChanOver to
\* ChanDen + ChanOver: below 0, within 0..1 and above 1.
ChanDen == 6
ChanOver == 2

\* The images encoded: every image of up to MaxPixels pixels over the palette,
\* and images of up to MaxSegs runs of equal pixels of up to MaxRun pixels each.
MaxPixels == 5
MaxSegs == 2
MaxRun == 63

\* The largest off-diagonal entry of the matrices multiplied.
MulMax == 1

\* ------------------------------------------------- scene.rs: Display

Display_new(x, y) == [x |-> x, y |-> y]

Display_size(d) == d.x * d.y

\* DisplayIter::new: the cursors start at the first and the last pixel.
DisplayIter_new(display) ==
    [display |-> display,
     x_start |-> 0,
     x_end   |-> display.x - 1,
     y_start |-> 0,
     y_end   |-> display.y - 1]

\* A mutation of DisplayIter::next that forgets to advance the row.
DisplayIter_next_no_row(it) ==
    IF it.y_start = it.y_end /\ it.x_start > it.x_end
    THEN [it |-> it, item |-> None]
    ELSE With(IF it.x_start >= it.display.x THEN [it EXCEPT !.x_start = 0] ELSE it,
              LAMBDA it1 :
                  IF it1.y_start > it1.y_end
                  THEN [it |-> it1, item |-> None]
                  ELSE [it   |-> [it1 EXCEPT !.x_start = @ + 1],
                        item |-> Some(<<it1.x_start, it1.y_start>>)])

\* DisplayIter::next: the new iterator state and the item returned.
DisplayIter_next(it) ==
    IF it.y_start = it.y_end /\ it.x_start > it.x_end
    THEN [it |-> it, item |-> None]
    ELSE With(IF it.x_start >= it.display.x
              THEN [it EXCEPT !.x_start = 0, !.y_start = @ + 1]
              ELSE it,
              LAMBDA it1 :
                  IF it1.y_start > it1.y_end
                  THEN [it |-> it1, item |-> None]
                  ELSE [it   |-> [it1 EXCEPT !.x_start = @ + 1],
                        item |-> Some(<<it1.x_start, it1.y_start>>)])

\* ------------------------------------------------- utils.rs: ChunkIter

\* The iterator a ChunkIter is made over (its type parameter I) is a DisplayIter
\* or a Range<usize>, the record [start, end].
Range_next(r) ==
    IF r.start < r.end
    THEN [it |-> [r EXCEPT !.start = @ + 1], item |-> Some(r.start)]
    ELSE [it |-> r, item |-> None]

\* I::next for the iterator at hand.
Iter_next(it) == IF "display" \in DOMAIN it THEN DisplayIter_next(it) ELSE Range_next(it)

\* Iterator::peekable: nothing peeked yet.
Peekable_new(it) == [iter |-> it, peeked |-> None]

\* Peekable::peek: fills the one-item lookahead from the inner iterator.
Peekable_peek(pk) ==
    IF pk.peeked # None
    THEN [pk |-> pk, item |-> pk.peeked[1]]
    ELSE With(Iter_next(pk.iter),
              LAMBDA r : [pk |-> [iter |-> r.it, peeked |-> Some(r.item)], item |-> r.item])

\* Peekable::next: the lookahead if there is one, else the inner iterator.
Peekable_next(pk) ==
    IF pk.peeked # None
    THEN [pk |-> [pk EXCEPT !.peeked = None], item |-> pk.peeked[1]]
    ELSE With(Iter_next(pk.iter),
              LAMBDA r : [pk |-> [pk EXCEPT !.iter = r.it], item |-> r.item])

RECURSIVE Take_collect(_, _)
\* (&mut iter).take(n).collect(): up to n items, stopping at the first None.
Take_collect(pk, n) ==
    IF n = 0
    THEN [pk |-> pk, items |-> <<>>]
    ELSE With(Peekable_next(pk),
              LAMBDA r :
                  IF r.item = None
                  THEN [pk |-> r.pk, items |-> <<>>]
                  ELSE With(Take_collect(r.pk, n - 1),
                            LAMBDA rest :
                                [pk |-> rest.pk, items |-> <<r.item[1]>> \o rest.items]))

ChunkIter_new(it, chunk_size) == [iter |-> Peekable_new(it), chunk_size |-> chunk_size]

\* The rest of ChunkIter::next once the end has been tested for: p is the
\* iterator after the test and the item the test saw.
ChunkIter_take(ci, p) ==
    IF p.item # None
    THEN With(Take_collect(p.pk, ci.chunk_size),
              LAMBDA t : [ci |-> [ci EXCEPT !.iter = t.pk], item |-> Some(t.items)])
    ELSE [ci |-> [ci EXCEPT !.iter = p.pk], item |-> None]

\* A mutation of ChunkIter::next that tests for the end with next() instead of
\* peek(), so that the item tested is consumed and lost.
ChunkIter_next_consuming(ci) ==
    With(Peekable_next(ci.iter), LAMBDA p : ChunkIter_take(ci, p))

\* A mutation of ChunkIter::next that yields full chunks only (chunks_exact).
ChunkIter_next_exact(ci) ==
    With(ChunkIter_take(ci, Peekable_peek(ci.iter)),
         LAMBDA r :
             IF r.item # None /\ Len(r.item[1]) < ci.chunk_size
             THEN [ci |-> r.ci, item |-> None]
             ELSE r)

\* ChunkIter::next: the new iterator state and the chunk returned.
ChunkIter_next(ci) ==
    With(Peekable_peek(ci.iter), LAMBDA p : ChunkIter_take(ci, p))

\* ------------------------------------------------- utils.rs: RangeChunks

RangeChunks_new(start, end, chunk_size) ==
    [start |-> start, end |-> end, chunk_size |-> chunk_size]

Min(a, b) == IF a < b THEN a ELSE b

\* A mutation of RangeChunks::next whose ranges include their end point.
RangeChunks_next_inclusive(rc) ==
    IF rc.start >= rc.end
    THEN [rc |-> rc, item |-> None]
    ELSE LET new_end == Min(rc.end, rc.start + rc.chunk_size)
         IN  [rc |-> [rc EXCEPT !.start = new_end], item |-> Some(<<rc.start, new_end + 1>>)]

\* RangeChunks::next: the range start..new_end as the pair <<start, new_end>>.
RangeChunks_next(rc) ==
    IF rc.start >= rc.end
    THEN [rc |-> rc, item |-> None]
    ELSE LET new_end == Min(rc.end, rc.start + rc.chunk_size)
         IN  [rc |-> [rc EXCEPT !.start = new_end], item |-> Some(<<rc.start, new_end>>)]

\* ------------------------------------------------- rand.rs: Lcg

\* A u64 is its eight bytes, least significant first; a u32 its four bytes.
U32(n) == <<n % 256, (n \div 256) % 256, (n \div 65536) % 256, (n \div 16777216) % 256>>

U64(n) == U32(n) \o <<0, 0, 0, 0>>

\* u64_from_u32s: a as u64 | (b as u64) << 32.
u64_from_u32s(a, b) == a \o b

\* 0x5DEECE66D.
LCG_MULTIPLIER == <<109, 230, 236, 222, 5, 0, 0, 0>>

LCG_INCREMENT == 11

\* Column k (from 0) of the schoolbook product of two u64.
MulColumn(a, b, k) ==
    LET RECURSIVE Sum(_)
        Sum(i) == IF i > k THEN 0 ELSE a[i + 1] * b[k - i + 1] + Sum(i + 1)
    IN  Sum(0)

RECURSIVE MulCarry(_, _, _)
\* The carry into column k of the product.
MulCarry(a, b, k) ==
    IF k = 0 THEN 0 ELSE (MulColumn(a, b, k - 1) + MulCarry(a, b, k - 1)) \div 256

\* Wrapping<u64> multiplication: the product modulo 2^64.
WrappingMul(a, b) ==
    [k \in 1..8 |-> (MulColumn(a, b, k - 1) + MulCarry(a, b, k - 1)) % 256]

RECURSIVE AddCarry(_, _, _)
\* The carry into byte k (from 1) of a + n.
AddCarry(a, n, k) == IF k = 1 THEN n ELSE (a[k - 1] + AddCarry(a, n, k - 1)) \div 256

\* Wrapping<u64> addition of a small number: the sum modulo 2^64.
WrappingAdd(a, n) == [k \in 1..8 |-> (a[k] + AddCarry(a, n, k)) % 256]

\* x % Wrapping(2u64 << 48): 2 << 48 is 2^49, so bits 0..48 are kept.
RemShl48(a) == <<a[1], a[2], a[3], a[4], a[5], a[6], a[7] % 2, 0>>

\* The values of a u64.
U64Values == [1..8 -> 0..255]

\* The three steps of Lcg::advance_state, (state * 0x5DEECE66D + 11) % (2 << 48),
\* and the result of next(). They are functions of their argument so that the
\* argument is evaluated once however often the body reads it.
MulStep[state \in U64Values] == WrappingMul(state, LCG_MULTIPLIER)

AddStep[product \in U64Values] == WrappingAdd(product, LCG_INCREMENT)

RemStep[sum \in U64Values] == RemShl48(sum)

\* Lcg::advance_state.
Lcg_advance_state(state) == RemStep[AddStep[MulStep[state]]]

\* (self.state.0 >> 16) as u32: bits 16..47 of the state.
Lcg_word(state) == <<state[3], state[4], state[5], state[6]>>

NextOf[advanced \in U64Values] == [state |-> advanced, word |-> Lcg_word(advanced)]

\* impl RandSource for Lcg, next: the new state and the word returned.
Lcg_next(state) == NextOf[Lcg_advance_state(state)]

\* Lcg::from_seed: the seed advanced three times.
Lcg_from_seed(seed) == Lcg_next(Lcg_next(Lcg_next(seed).state).state).state

\* A mutation of next() on one of several generators in which the state is one
\* static shared by all of them instead of a field of each.
Lcg_draw_shared(gens, g) ==
    LET s == Lcg_advance_state(gens[1])
    IN  [gens |-> [h \in DOMAIN gens |-> s], word |-> Lcg_word(s)]

\* lcg.next() on generator g of several: only g's own state moves (&mut self).
Lcg_draw(gens, g) ==
    LET r == Lcg_next(gens[g])
    IN  [gens |-> [gens EXCEPT ![g] = r.state], word |-> r.word]

\* ------------------------------------------------------------ idle values

\* What the variables of a component hold in the specifications that leave the
\* component alone.
ChunkIdle ==
    /\ chunk_iter = ChunkIter_new(DisplayIter_new(Display_new(1, 1)), 1)
    /\ chunks_out = <<>>
    /\ chunk_end = FALSE
    /\ range_chunks = RangeChunks_new(0, 0, 1)
    /\ ranges_out = <<>>
    /\ range_end = FALSE

LcgIdle ==
    /\ lcg_seed = U64(0)
    /\ lcg = <<>>
    /\ lcg_out = <<>>

MergeIdle ==
    /\ merge_in = <<>>
    /\ merge_out = None


\* ------------------------------------------------- library components

\* The components checked on their own, outside a render: each has a
\* specification of its own, which leaves the others idle.
base_vars == <<chunk_vars, lcg_vars, render_vars, merge_vars>>

mat_vars == <<mat, mat_result>>

sphere_vars == <<sphere, sphere_ray, sphere_incl, sphere_hit>>

slice_vars == <<slice_shapes, slice_ray, slice_incl, slice_hit>>

tri_vars == <<tri_vertices, tri_pc, tri_mesh, tri_point, tri_ray, tri_incl, tri_hit>>

sees_vars == <<sees_scene, sees_pos, sees_result>>

cast_vars == <<cast_bounces, cast_stack, cast_hits, cast_lit, cast_result>>

diter_vars == <<diter, diter_front, diter_back, diter_last>>

cp_vars == <<cp_a, cp_b, cp, cp_out, cp_last>>

cseq_vars == <<cseq_len, cseq_iter, cseq_out, cseq_last>>

rchunks_vars == <<rchunks_range, rchunks, rchunks_out, rchunks_last>>

rgb_vars == <<rgb_color, rgb_bytes>>

qoi_vars == <<qoi_image, qoi_pc, qoi_px, qoi_index, qoi_prev, qoi_run, qoi_out>>

mul_vars == <<mul_a, mul_b, mul_v, mul_product, mul_assigned>>

img_vars == <<img_buf, img_xy, img_stored, img_read>>

lib_vars == <<mat_vars, sphere_vars, slice_vars, tri_vars, sees_vars, cast_vars, diter_vars, cp_vars, cseq_vars, rchunks_vars, rgb_vars, qoi_vars, mul_vars, img_vars>>

vars == <<base_vars, lib_vars>>

MatIdle ==
    /\ mat = <<>>
    /\ mat_result = None

SphereIdle ==
    /\ sphere = <<>>
    /\ sphere_ray = <<>>
    /\ sphere_incl = FALSE
    /\ sphere_hit = None

SliceIdle ==
    /\ slice_shapes = <<>>
    /\ slice_ray = <<>>
    /\ slice_incl = FALSE
    /\ slice_hit = None

TriIdle ==
    /\ tri_vertices = <<>>
    /\ tri_pc = "idle"
    /\ tri_mesh = None
    /\ tri_point = <<>>
    /\ tri_ray = <<>>
    /\ tri_incl = FALSE
    /\ tri_hit = None

SeesIdle ==
    /\ sees_scene = <<>>
    /\ sees_pos = <<>>
    /\ sees_result = None

CastIdle ==
    /\ cast_bounces = 0
    /\ cast_stack = <<>>
    /\ cast_hits = <<>>
    /\ cast_lit = <<>>
    /\ cast_result = None

DIterIdle ==
    /\ diter = <<>>
    /\ diter_front = <<>>
    /\ diter_back = <<>>
    /\ diter_last = <<>>

CpIdle ==
    /\ cp_a = <<>>
    /\ cp_b = <<>>
    /\ cp = <<>>
    /\ cp_out = <<>>
    /\ cp_last = <<>>

CSeqIdle ==
    /\ cseq_len = 0
    /\ cseq_iter = <<>>
    /\ cseq_out = <<>>
    /\ cseq_last = <<>>

RChunksIdle ==
    /\ rchunks_range = <<>>
    /\ rchunks = <<>>
    /\ rchunks_out = <<>>
    /\ rchunks_last = <<>>

RgbIdle ==
    /\ rgb_color = <<>>
    /\ rgb_bytes = None

QoiIdle ==
    /\ qoi_image = <<>>
    /\ qoi_pc = "idle"
    /\ qoi_px = 0
    /\ qoi_index = <<>>
    /\ qoi_prev = <<>>
    /\ qoi_run = 0
    /\ qoi_out = <<>>

MulIdle ==
    /\ mul_a = <<>>
    /\ mul_b = <<>>
    /\ mul_v = <<>>
    /\ mul_product = None
    /\ mul_assigned = None

ImgIdle ==
    /\ img_buf = <<>>
    /\ img_xy = <<>>
    /\ img_stored = None
    /\ img_read = None

LibIdle == MatIdle /\ SphereIdle /\ SliceIdle /\ TriIdle /\ SeesIdle /\ CastIdle /\ DIterIdle /\ CpIdle /\ CSeqIdle /\ RChunksIdle /\ RgbIdle /\ QoiIdle /\ MulIdle /\ ImgIdle

mat_rest == <<base_vars, sphere_vars, slice_vars, tri_vars, sees_vars, cast_vars, diter_vars, cp_vars, cseq_vars, rchunks_vars, rgb_vars, qoi_vars, mul_vars, img_vars>>

sphere_rest == <<base_vars, mat_vars, slice_vars, tri_vars, sees_vars, cast_vars, diter_vars, cp_vars, cseq_vars, rchunks_vars, rgb_vars, qoi_vars, mul_vars, img_vars>>

slice_rest == <<base_vars, mat_vars, sphere_vars, tri_vars, sees_vars, cast_vars, diter_vars, cp_vars, cseq_vars, rchunks_vars, rgb_vars, qoi_vars, mul_vars, img_vars>>

tri_rest == <<base_vars, mat_vars, sphere_vars, slice_vars, sees_vars, cast_vars, diter_vars, cp_vars, cseq_vars, rchunks_vars, rgb_vars, qoi_vars, mul_vars, img_vars>>

sees_rest == <<base_vars, mat_vars, sphere_vars, slice_vars, tri_vars, cast_vars, diter_vars, cp_vars, cseq_vars, rchunks_vars, rgb_vars, qoi_vars, mul_vars, img_vars>>

cast_rest == <<base_vars, mat_vars, sphere_vars, slice_vars, tri_vars, sees_vars, diter_vars, cp_vars, cseq_vars, rchunks_vars, rgb_vars, qoi_vars, mul_vars, img_vars>>

diter_rest == <<base_vars, mat_vars, sphere_vars, slice_vars, tri_vars, sees_vars, cast_vars, cp_vars, cseq_vars, rchunks_vars, rgb_vars, qoi_vars, mul_vars, img_vars>>

cp_rest == <<base_vars, mat_vars, sphere_vars, slice_vars, tri_vars, sees_vars, cast_vars, diter_vars, cseq_vars, rchunks_vars, rgb_vars, qoi_vars, mul_vars, img_vars>>

cseq_rest == <<base_vars, mat_vars, sphere_vars, slice_vars, tri_vars, sees_vars, cast_vars, diter_vars, cp_vars, rchunks_vars, rgb_vars, qoi_vars, mul_vars, img_vars>>

rchunks_rest == <<base_vars, mat_vars, sphere_vars, slice_vars, tri_vars, sees_vars, cast_vars, diter_vars, cp_vars, cseq_vars, rgb_vars, qoi_vars, mul_vars, img_vars>>

rgb_rest == <<base_vars, mat_vars, sphere_vars, slice_vars, tri_vars, sees_vars, cast_vars, diter_vars, cp_vars, cseq_vars, rchunks_vars, qoi_vars, mul_vars, img_vars>>

qoi_rest == <<base_vars, mat_vars, sphere_vars, slice_vars, tri_vars, sees_vars, cast_vars, diter_vars, cp_vars, cseq_vars, rchunks_vars, rgb_vars, mul_vars, img_vars>>

mul_rest == <<base_vars, mat_vars, sphere_vars, slice_vars, tri_vars, sees_vars, cast_vars, diter_vars, cp_vars, cseq_vars, rchunks_vars, rgb_vars, qoi_vars, img_vars>>

img_rest == <<base_vars, mat_vars, sphere_vars, slice_vars, tri_vars, sees_vars, cast_vars, diter_vars, cp_vars, cseq_vars, rchunks_vars, rgb_vars, qoi_vars, mul_vars>>

\* ------------------------------------------------- rand.rs: THREAD_LCG

\* sysnanos(): the sub-second nanoseconds of the system clock, a u32 below 10^9.
\* Lcg::from_time reads it twice in a row; these are the pairs of readings it can
\* get, at two different times.
Clock == {<<U32(123456789), U32(123456829)>>, <<U32(987654321), U32(987654361)>>}

\* The readings thread t's next draw can make of the clock: it reads the clock
\* only to create its generator, so there is one case once the generator exists.
ClockReadings(tls, t) == IF tls[t] = None THEN Clock ELSE {<<U32(0), U32(0)>>}

\* Lcg::from_time with the two clock readings it makes.
Lcg_from_time(n1, n2) == Lcg_from_seed(u64_from_u32s(n1, n2))

\* R::get(&mut lcg) for R = u32 on the generator in slot t, which the draw leaves
\* in the state r.state.
Slot_draw(tls, slots, r, created) ==
    [tls |-> [u \in DOMAIN tls |-> IF u \in slots THEN Some(r.state) ELSE tls[u]],
     word |-> r.word,
     created |-> created]

\* A mutation of thread_lcg in which THREAD_LCG is one static shared by all
\* threads (slot 1) instead of a thread_local.
thread_lcg_static(tls, t, n1, n2) ==
    With(Lcg_next(IF tls[1] = None THEN Lcg_from_time(n1, n2) ELSE tls[1][1]),
         LAMBDA r : Slot_draw(tls, {1, t}, r, tls[t] = None))

\* thread_lcg::<u32>() called on thread t, which is ThreadLcg::next: the thread's
\* own generator is created from the time on its first use, then drawn from.
\* n1, n2 are the clock readings a creation would make.
thread_lcg_u32(tls, t, n1, n2) ==
    With(Lcg_next(IF tls[t] = None THEN Lcg_from_time(n1, n2) ELSE tls[t][1]),
         LAMBDA r : Slot_draw(tls, {t}, r, tls[t] = None))

\* impl Rand for u8: (rng.next() & 0xFF) as u8.
Rand_u8(word) == word[1]

\* ------------------------------------------------- img: Color, Image

\* Color::BLACK, the value Image::zeros fills a buffer with; a gray level stands
\* for a colour.
BLACK == 0

\* Image::zeros.
Image_zeros(size) ==
    [width |-> size.x, height |-> size.y, data |-> [i \in 1..(size.x * size.y) |-> BLACK]]

\* The cell Image::at reads: data[y * width + x] (data is indexed from 1 here).
Image_at_index(img, x, y) == y * img.width + x + 1

\* A mutation of Image::at_mut that leaves the row out of the index.
Image_at_mut_index_no_row(img, x, y) == x + 1

\* The cell Image::at_mut hands out: data[(height - y - 1) * width + x].
Image_at_mut_index(img, x, y) == (img.height - y - 1) * img.width + x + 1

\* *img.at_mut(x, y) = color.
Image_store(img, x, y, color) == [img EXCEPT !.data[Image_at_mut_index(img, x, y)] = color]

\* ------------------------------------------------- the render scheduler

Workers == 1..NumWorkers

RenderDisplay == Display_new(RenderW, RenderH)

\* The first non-background value of a cell among the buffers, in the order given.
RECURSIVE FirstWritten(_, _)
FirstWritten(buffers, i) ==
    IF buffers = <<>>
    THEN BLACK
    ELSE IF Head(buffers).data[i] # BLACK
         THEN Head(buffers).data[i]
         ELSE FirstWritten(Tail(buffers), i)

\* A mutation of the merge that takes every cell from the first buffer.
Merge_first_buffer(buffers) ==
    [Head(buffers) EXCEPT !.data = [i \in DOMAIN Head(buffers).data |-> Head(buffers).data[i]]]

\* The merge of the workers' buffers: per cell, the first non-background value.
Merge(buffers) ==
    [Head(buffers) EXCEPT !.data = [i \in DOMAIN Head(buffers).data |-> FirstWritten(buffers, i)]]

\* A mutation of the lock that does not wait for the mutex to be free.
MutexFree_unchecked(m) == TRUE

\* Whether Mutex::lock returns at once.
MutexFree(m) == m = 0

\* A mutation of JoinHandle::join that returns before the thread has finished.
Finished_detached(p) == TRUE

\* Whether a thread has finished, so that JoinHandle::join returns.
Finished(p) == p \in {"exited", "panicked"}

\* A mutation of the join that salvages what the other workers rendered.
JoinIsErr_salvage(p) == FALSE

\* Whether JoinHandle::join returns Err: the thread panicked.
JoinIsErr(p) == p = "panicked"

\* What a step of the render leaves alone.
render_rest == <<golden, chunk_vars, lcg_vars, merge_vars, lib_vars>>

RenderStart ==
    /\ cursor = ChunkIter_new(DisplayIter_new(RenderDisplay), RenderChunk)
    /\ mutex = 0
    /\ pc = [w \in Workers |-> "idle"]
    /\ todo = [w \in Workers |-> <<>>]
    /\ got = [w \in Workers |-> <<>>]
    /\ saw_end = {}
    /\ wrote = [w \in Workers |-> {}]
    /\ bufs = [w \in Workers |-> Image_zeros(RenderDisplay)]
    /\ progress = 0
    /\ thread_lcg = [w \in Workers |-> None]
    /\ tl_seed = [w \in Workers |-> None]
    /\ seen = [w \in Workers |-> <<>>]
    /\ main_pc = "poll"
    /\ joined = 0
    /\ image = None

RenderInit ==
    /\ RenderStart
    /\ golden = None
    /\ ChunkIdle
    /\ LcgIdle
    /\ MergeIdle
    /\ LibIdle

\* A worker takes the cursor's lock.
Lock(w) ==
    /\ pc[w] = "idle"
    /\ MutexFree(mutex)
    /\ mutex' = w
    /\ pc' = [pc EXCEPT ![w] = "locked"]
    /\ UNCHANGED <<cursor, todo, got, saw_end, wrote, bufs, progress, rand_vars, main_vars, render_rest>>

\* Holding the lock, a worker pops the next chunk and releases the lock; it exits
\* if the cursor is exhausted.
Pop(w) ==
    /\ pc[w] = "locked"
    /\ \E r \in {ChunkIter_next(cursor)} :
           /\ cursor' = r.ci
           /\ IF r.item = None
              THEN /\ pc' = [pc EXCEPT ![w] = "exited"]
                   /\ saw_end' = saw_end \cup {w}
                   /\ UNCHANGED <<todo, got>>
              ELSE /\ pc' = [pc EXCEPT ![w] = "render"]
                   /\ todo' = [todo EXCEPT ![w] = r.item[1]]
                   /\ got' = [got EXCEPT ![w] = Append(@, r.item[1])]
                   /\ UNCHANGED saw_end
    /\ mutex' = IF mutex = w THEN 0 ELSE mutex
    /\ UNCHANGED <<wrote, bufs, progress, rand_vars, main_vars, render_rest>>

\* A worker renders the next pixel of its chunk into its private buffer; the
\* integrator draws from the thread's generator and the colour follows the word.
RenderPixel(w) ==
    /\ pc[w] = "render"
    /\ todo[w] # <<>>
    /\ \E now \in ClockReadings(thread_lcg, w) :
       \E r \in {thread_lcg_u32(thread_lcg, w, now[1], now[2])} :
        LET p == Head(todo[w])
        IN  /\ thread_lcg' = r.tls
            /\ tl_seed' = IF r.created
                          THEN [tl_seed EXCEPT ![w] = Some(u64_from_u32s(now[1], now[2]))]
                          ELSE tl_seed
            /\ seen' = [seen EXCEPT ![w] = Append(@, r.word)]
            /\ bufs' = [bufs EXCEPT ![w] = Image_store(@, p[1], p[2], Rand_u8(r.word))]
            /\ wrote' = [wrote EXCEPT ![w] = @ \cup {p}]
    /\ todo' = [todo EXCEPT ![w] = Tail(@)]
    /\ UNCHANGED <<cursor, mutex, pc, got, saw_end, progress, main_vars, render_rest>>

\* A worker that has rendered its whole chunk counts it and goes for the next.
FinishChunk(w) ==
    /\ pc[w] = "render"
    /\ todo[w] = <<>>
    /\ progress' = progress + 1
    /\ pc' = [pc EXCEPT ![w] = "idle"]
    /\ UNCHANGED <<cursor, mutex, todo, got, saw_end, wrote, bufs, rand_vars, main_vars, render_rest>>

\* A worker panics while rendering a pixel.
Panic(w) ==
    /\ pc[w] = "render"
    /\ todo[w] # <<>>
    /\ pc' = [pc EXCEPT ![w] = "panicked"]
    /\ UNCHANGED <<cursor, mutex, todo, got, saw_end, wrote, bufs, progress, rand_vars, main_vars, render_rest>>

\* The main thread's polling loop ends when every worker has finished.
Poll ==
    /\ main_pc = "poll"
    /\ \A w \in Workers : Finished(pc[w])
    /\ main_pc' = "join"
    /\ UNCHANGED <<joined, image, worker_vars, rand_vars, render_rest>>

\* The main thread joins the next worker handle: a panic is fatal.
Join ==
    /\ main_pc = "join"
    /\ joined < NumWorkers
    /\ Finished(pc[joined + 1])
    /\ IF JoinIsErr(pc[joined + 1])
       THEN main_pc' = "fatal" /\ UNCHANGED joined
       ELSE /\ joined' = joined + 1
            /\ main_pc' = IF joined + 1 = NumWorkers THEN "merge" ELSE "join"
    /\ UNCHANGED <<image, worker_vars, rand_vars, render_rest>>

\* The main thread merges the workers' buffers, in worker order.
MergeBuffers ==
    /\ main_pc = "merge"
    /\ image' = Some(Merge([w \in Workers |-> bufs[w]]))
    /\ main_pc' = "done"
    /\ UNCHANGED <<joined, worker_vars, rand_vars, render_rest>>

RenderNext ==
    \/ \E w \in Workers : Lock(w)
    \/ \E w \in Workers : Pop(w)
    \/ \E w \in Workers : RenderPixel(w)
    \/ \E w \in Workers : FinishChunk(w)
    \/ \E w \in Workers : Panic(w)
    \/ Poll
    \/ Join
    \/ MergeBuffers

Spec == RenderInit /\ [][RenderNext]_vars

RenderIdle ==
    /\ RenderStart
    /\ golden = None

\* ------------------------------------------------- idle components

\* What a specification of one component requires of all the others.
BaseIdle == ChunkIdle /\ LcgIdle /\ RenderIdle /\ MergeIdle

MatRestIdle == BaseIdle /\ SphereIdle /\ SliceIdle /\ TriIdle /\ SeesIdle /\ CastIdle /\ DIterIdle /\ CpIdle /\ CSeqIdle /\ RChunksIdle /\ RgbIdle /\ QoiIdle /\ MulIdle /\ ImgIdle

SphereRestIdle == BaseIdle /\ MatIdle /\ SliceIdle /\ TriIdle /\ SeesIdle /\ CastIdle /\ DIterIdle /\ CpIdle /\ CSeqIdle /\ RChunksIdle /\ RgbIdle /\ QoiIdle /\ MulIdle /\ ImgIdle

SliceRestIdle == BaseIdle /\ MatIdle /\ SphereIdle /\ TriIdle /\ SeesIdle /\ CastIdle /\ DIterIdle /\ CpIdle /\ CSeqIdle /\ RChunksIdle /\ RgbIdle /\ QoiIdle /\ MulIdle /\ ImgIdle

TriRestIdle == BaseIdle /\ MatIdle /\ SphereIdle /\ SliceIdle /\ SeesIdle /\ CastIdle /\ DIterIdle /\ CpIdle /\ CSeqIdle /\ RChunksIdle /\ RgbIdle /\ QoiIdle /\ MulIdle /\ ImgIdle

SeesRestIdle == BaseIdle /\ MatIdle /\ SphereIdle /\ SliceIdle /\ TriIdle /\ CastIdle /\ DIterIdle /\ CpIdle /\ CSeqIdle /\ RChunksIdle /\ RgbIdle /\ QoiIdle /\ MulIdle /\ ImgIdle

CastRestIdle == BaseIdle /\ MatIdle /\ SphereIdle /\ SliceIdle /\ TriIdle /\ SeesIdle /\ DIterIdle /\ CpIdle /\ CSeqIdle /\ RChunksIdle /\ RgbIdle /\ QoiIdle /\ MulIdle /\ ImgIdle

DIterRestIdle == BaseIdle /\ MatIdle /\ SphereIdle /\ SliceIdle /\ TriIdle /\ SeesIdle /\ CastIdle /\ CpIdle /\ CSeqIdle /\ RChunksIdle /\ RgbIdle /\ QoiIdle /\ MulIdle /\ ImgIdle

CpRestIdle == BaseIdle /\ MatIdle /\ SphereIdle /\ SliceIdle /\ TriIdle /\ SeesIdle /\ CastIdle /\ DIterIdle /\ CSeqIdle /\ RChunksIdle /\ RgbIdle /\ QoiIdle /\ MulIdle /\ ImgIdle

CSeqRestIdle == BaseIdle /\ MatIdle /\ SphereIdle /\ SliceIdle /\ TriIdle /\ SeesIdle /\ CastIdle /\ DIterIdle /\ CpIdle /\ RChunksIdle /\ RgbIdle /\ QoiIdle /\ MulIdle /\ ImgIdle

RChunksRestIdle == BaseIdle /\ MatIdle /\ SphereIdle /\ SliceIdle /\ TriIdle /\ SeesIdle /\ CastIdle /\ DIterIdle /\ CpIdle /\ CSeqIdle /\ RgbIdle /\ QoiIdle /\ MulIdle /\ ImgIdle

RgbRestIdle == BaseIdle /\ MatIdle /\ SphereIdle /\ SliceIdle /\ TriIdle /\ SeesIdle /\ CastIdle /\ DIterIdle /\ CpIdle /\ CSeqIdle /\ RChunksIdle /\ QoiIdle /\ MulIdle /\ ImgIdle

QoiRestIdle == BaseIdle /\ MatIdle /\ SphereIdle /\ SliceIdle /\ TriIdle /\ SeesIdle /\ CastIdle /\ DIterIdle /\ CpIdle /\ CSeqIdle /\ RChunksIdle /\ RgbIdle /\ MulIdle /\ ImgIdle

MulRestIdle == BaseIdle /\ MatIdle /\ SphereIdle /\ SliceIdle /\ TriIdle /\ SeesIdle /\ CastIdle /\ DIterIdle /\ CpIdle /\ CSeqIdle /\ RChunksIdle /\ RgbIdle /\ QoiIdle /\ ImgIdle

ImgRestIdle == BaseIdle /\ MatIdle /\ SphereIdle /\ SliceIdle /\ TriIdle /\ SeesIdle /\ CastIdle /\ DIterIdle /\ CpIdle /\ CSeqIdle /\ RChunksIdle /\ RgbIdle /\ QoiIdle /\ MulIdle

\* The render under fair scheduling: a worker that can take a step other than a
\* panic eventually takes one, and so does the main thread.
FairSpec ==
    /\ Spec
    /\ \A w \in Workers : WF_vars(Lock(w) \/ Pop(w) \/ RenderPixel(w) \/ FinishChunk(w))
    /\ WF_vars(Poll \/ Join \/ MergeBuffers)

\* ------------------------------- the render run twice (golden-image test)

\* The finished image is kept as the golden image and the same scene is rendered
\* again from the start, with fresh threads.
Rerender ==
    /\ main_pc = "done"
    /\ golden = None
    /\ golden' = image
    /\ cursor' = ChunkIter_new(DisplayIter_new(RenderDisplay), RenderChunk)
    /\ mutex' = 0
    /\ pc' = [w \in Workers |-> "idle"]
    /\ todo' = [w \in Workers |-> <<>>]
    /\ got' = [w \in Workers |-> <<>>]
    /\ saw_end' = {}
    /\ wrote' = [w \in Workers |-> {}]
    /\ bufs' = [w \in Workers |-> Image_zeros(RenderDisplay)]
    /\ progress' = 0
    /\ thread_lcg' = [w \in Workers |-> None]
    /\ tl_seed' = [w \in Workers |-> None]
    /\ seen' = [w \in Workers |-> <<>>]
    /\ main_pc' = "poll"
    /\ joined' = 0
    /\ image' = None
    /\ UNCHANGED <<chunk_vars, lcg_vars, merge_vars, lib_vars>>

GoldenNext == RenderNext \/ Rerender

SpecGolden == RenderInit /\ [][GoldenNext]_vars

\* ------------------------------------------- specification of the merge

\* The values a cell of a buffer can hold: the background and two colours.
CellValues == {BLACK, 1, 2}

\* Every sequence of MergeBufs buffers of MergeCells cells, in every order.
MergeInit ==
    /\ \E cells \in [1..MergeBufs -> [1..MergeCells -> CellValues]] :
        merge_in = [b \in 1..MergeBufs |->
                       [Image_zeros(Display_new(MergeCells, 1)) EXCEPT !.data = cells[b]]]
    /\ merge_out = None
    /\ ChunkIdle
    /\ LcgIdle
    /\ RenderIdle
    /\ LibIdle

\* The merge runs over the buffers in the order given.
MergeApply ==
    /\ merge_out = None
    /\ merge_out' = Some(Merge(merge_in))
    /\ UNCHANGED <<merge_in, chunk_vars, lcg_vars, render_vars, lib_vars>>

MergeNext == MergeApply

SpecMerge == MergeInit /\ [][MergeNext]_vars

\* ----------------------------- specification of explicitly seeded generators

\* The seeds tried: small ones, one with the high word set, one with all bits set.
Seeds ==
    {U64(0), U64(1), U64(42), u64_from_u32s(U32(7), U32(999999999)),
     <<255, 255, 255, 255, 255, 255, 255, 255>>}

\* Two generators are created from the same seed (tests of LCG determinism).
LcgInit ==
    /\ \E seed \in Seeds :
        /\ lcg_seed = seed
        /\ lcg = <<Lcg_from_seed(seed), Lcg_from_seed(seed)>>
    /\ lcg_out = <<<<>>, <<>>>>
    /\ ChunkIdle
    /\ RenderIdle
    /\ MergeIdle
    /\ LibIdle

\* One generator draws a word; the two are drawn from in any order.
LcgDraw(g) ==
    /\ Len(lcg_out[g]) < MaxDraws
    /\ LET r == Lcg_draw(lcg, g)
       IN  /\ lcg' = r.gens
           /\ lcg_out' = [lcg_out EXCEPT ![g] = Append(@, r.word)]
    /\ UNCHANGED <<lcg_seed, chunk_vars, render_vars, merge_vars, lib_vars>>

LcgNext == \E g \in 1..2 : LcgDraw(g)

SpecLcg == LcgInit /\ [][LcgNext]_vars

\* ------------------------------------------- specification of the chunking

\* Every display of at least one pixel and every chunk size of at least one.
ChunkInit ==
    \E w \in 1..MaxW, h \in 1..MaxH, n \in 1..MaxChunk :
        /\ chunk_iter = ChunkIter_new(DisplayIter_new(Display_new(w, h)), n)
        /\ chunks_out = <<>>
        /\ chunk_end = FALSE
        /\ range_chunks = RangeChunks_new(0, Display_size(Display_new(w, h)), n)
        /\ ranges_out = <<>>
        /\ range_end = FALSE
        /\ LcgIdle
        /\ RenderIdle
        /\ MergeIdle
        /\ LibIdle

\* One call of ChunkIter::next, until it has returned None.
ChunkStep ==
    /\ ~chunk_end
    /\ LET r == ChunkIter_next(chunk_iter)
       IN  /\ chunk_iter' = r.ci
           /\ chunks_out' = IF r.item = None THEN chunks_out ELSE Append(chunks_out, r.item[1])
           /\ chunk_end' = (r.item = None)
    /\ UNCHANGED <<range_chunks, ranges_out, range_end, lcg_vars, render_vars, merge_vars, lib_vars>>

\* One call of RangeChunks::next, until it has returned None.
RangeStep ==
    /\ ~range_end
    /\ LET r == RangeChunks_next(range_chunks)
       IN  /\ range_chunks' = r.rc
           /\ ranges_out' = IF r.item = None THEN ranges_out ELSE Append(ranges_out, r.item[1])
           /\ range_end' = (r.item = None)
    /\ UNCHANGED <<chunk_iter, chunks_out, chunk_end, lcg_vars, render_vars, merge_vars, lib_vars>>

ChunkNext == ChunkStep \/ RangeStep

SpecChunks == ChunkInit /\ [][ChunkNext]_vars

\* ------------------------------------------------- math.rs: f64, exactly

\* An f64 taken in exact arithmetic: a fraction <<numerator, denominator>> in
\* lowest terms with a positive denominator.
RECURSIVE Gcd(_, _)
Gcd(a, b) == IF b = 0 THEN a ELSE Gcd(b, a % b)

Abs(n) == IF n < 0 THEN -n ELSE n

Frac(n, d) ==
    LET g == Gcd(Abs(n), Abs(d))
    IN  IF d < 0 THEN <<(-n) \div g, (-d) \div g>> ELSE <<n \div g, d \div g>>

F64(n) == <<n, 1>>

f64_add(a, b) == Frac(a[1] * b[2] + b[1] * a[2], a[2] * b[2])

f64_sub(a, b) == Frac(a[1] * b[2] - b[1] * a[2], a[2] * b[2])

f64_mul(a, b) == Frac(a[1] * b[1], a[2] * b[2])

\* f64::recip, of a value other than zero.
f64_recip(a) == Frac(a[2], a[1])

f64_lt(a, b) == a[1] * b[2] < b[1] * a[2]

f64_le(a, b) == a[1] * b[2] <= b[1] * a[2]

\* ------------------------------------------------- math.rs: Vec3

Vec3_new(x, y, z) == <<x, y, z>>

Vec3_scale(v, c) == [k \in 1..3 |-> f64_mul(v[k], c)]

Vec3_dot(a, b) == f64_add(f64_add(f64_mul(a[1], b[1]), f64_mul(a[2], b[2])), f64_mul(a[3], b[3]))

Vec3_add(a, b) == [k \in 1..3 |-> f64_add(a[k], b[k])]

\* Neg for Vec3: -1. * self.
Vec3_neg(v) == Vec3_scale(v, F64(-1))

\* Sub for Vec3: self + -rhs.
Vec3_sub(a, b) == Vec3_add(a, Vec3_neg(b))

\* ------------------------------------------------- math.rs: Mat3x3

\* A Mat3x3 is the tuple of its rows; row i of the source is row i + 1 here.
Mat3x3_from_row_vectors(row1, row2, row3) == <<row1, row2, row3>>

Mat3x3_from_col_vectors(col1, col2, col3) ==
    <<Vec3_new(col1[1], col2[1], col3[1]),
      Vec3_new(col1[2], col2[2], col3[2]),
      Vec3_new(col1[3], col2[3], col3[3])>>

Mat3x3_identity ==
    Mat3x3_from_col_vectors(Vec3_new(F64(1), F64(0), F64(0)),
                            Vec3_new(F64(0), F64(1), F64(0)),
                            Vec3_new(F64(0), F64(0), F64(1)))

Mat3x3_transpose(self) == Mat3x3_from_col_vectors(self[1], self[2], self[3])

\* MulAssign<&Mat3x3> for Mat3x3: the value *self holds afterwards.
Mat3x3_mul_assign(self, rhs) ==
    LET rt == Mat3x3_transpose(rhs)
    IN  Mat3x3_from_row_vectors(
            Vec3_new(Vec3_dot(self[1], rt[1]), Vec3_dot(self[1], rt[2]), Vec3_dot(self[1], rt[3])),
            Vec3_new(Vec3_dot(self[2], rt[1]), Vec3_dot(self[2], rt[2]), Vec3_dot(self[2], rt[3])),
            Vec3_new(Vec3_dot(self[3], rt[1]), Vec3_dot(self[3], rt[2]), Vec3_dot(self[3], rt[3])))

\* Rows i and j of a matrix exchanged.
SwapRows(m, i, j) == [m EXCEPT ![i] = m[j], ![j] = m[i]]

\* A mutation of the row swap of inverse() that swaps the working matrix only.
Mat3x3_inverse_swap_self_only(st, i, j) == [st EXCEPT !.self = SwapRows(st.self, i, j)]

\* The row swap of inverse(): rows i and j of the working matrix and of the
\* accumulated inverse.
Mat3x3_inverse_swap(st, i, j) ==
    [self |-> SwapRows(st.self, i, j), inverse |-> SwapRows(st.inverse, i, j)]

\* inverse(), before the loop: a zero in the top left corner is swapped away, or
\* None is returned (here: None instead of Some of the two matrices).
Mat3x3_inverse_first(st) ==
    IF st.self[1][1] = F64(0)
    THEN IF st.self[2][1] # F64(0) THEN Some(Mat3x3_inverse_swap(st, 1, 2))
         ELSE IF st.self[3][1] # F64(0) THEN Some(Mat3x3_inverse_swap(st, 1, 3))
         ELSE None
    ELSE Some(st)

\* inverse(), loop body for row i, first half: a zero pivot is swapped with the
\* first row below that has a nonzero entry in the column, or None is returned.
Mat3x3_inverse_pivot(st, i) ==
    IF st.self[i][i] = F64(0)
    THEN LET below == {j \in (i + 1)..3 : st.self[j][i] # F64(0)}
             st1 == IF below = {}
                    THEN st
                    ELSE Mat3x3_inverse_swap(st, i, CHOOSE j \in below : \A k \in below : j <= k)
         IN  IF st1.self[i][i] = F64(0) THEN None ELSE Some(st1)
    ELSE Some(st)

\* inverse(), loop body for row i, second half: row i is scaled to a pivot of one
\* and subtracted from the other rows, in both matrices.
Mat3x3_inverse_eliminate(st, i) ==
    LET row_mul_factor == f64_recip(st.self[i][i])
        self_i == Vec3_scale(st.self[i], row_mul_factor)
        inverse_i == Vec3_scale(st.inverse[i], row_mul_factor)
    IN  [self    |-> [j \in 1..3 |->
                         IF j = i THEN self_i
                         ELSE Vec3_sub(st.self[j], Vec3_scale(self_i, st.self[j][i]))],
         inverse |-> [j \in 1..3 |->
                         IF j = i THEN inverse_i
                         ELSE Vec3_sub(st.inverse[j], Vec3_scale(inverse_i, st.self[j][i]))]]

RECURSIVE Mat3x3_inverse_loop(_, _)
\* inverse(), the loop from row i on, and the value returned.
Mat3x3_inverse_loop(st, i) ==
    IF i > 3
    THEN Some(st.inverse)
    ELSE LET p == Mat3x3_inverse_pivot(st, i)
         IN  IF p = None THEN None
             ELSE Mat3x3_inverse_loop(Mat3x3_inverse_eliminate(p[1], i), i + 1)

\* Mat3x3::inverse.
Mat3x3_inverse(self) ==
    LET f == Mat3x3_inverse_first([self |-> self, inverse |-> Mat3x3_identity])
    IN  IF f = None THEN None ELSE Mat3x3_inverse_loop(f[1], 1)

\* ------------------------------------- specification of the matrix inverse

\* Every matrix with integer entries from 0 to MatMax.
MatInit ==
    /\ \E e \in [1..3 -> [1..3 -> 0..MatMax]] :
        mat = [r \in 1..3 |-> [c \in 1..3 |-> F64(e[r][c])]]
    /\ mat_result = None
    /\ MatRestIdle

\* The call of inverse().
MatInverse ==
    /\ mat_result = None
    /\ mat_result' = Some(Mat3x3_inverse(mat))
    /\ UNCHANGED <<mat, mat_rest>>

MatNext == MatInverse

SpecMat == MatInit /\ [][MatNext]_vars

\* ------------------------------------------------- the tolerance constant

\* EPSILON, the one small tolerance of all geometric comparisons.
EPSILON == <<1, 100>>

\* ------------------------------------------------- f64: square roots

\* The value a + s * sqrt(r) with fractions a and r >= 0 and a sign s of 1 or -1:
\* what cx - root.sqrt() is in exact arithmetic.
Sqrt(r) == [a |-> F64(0), s |-> 1, r |-> r]

\* f64 - f64 with a square root on the right.
f64_sub_sqrt(x, q) == [a |-> f64_sub(x, q.a), s |-> -q.s, r |-> q.r]

\* f64 + f64 with a square root on the right.
f64_add_sqrt(x, q) == [a |-> f64_add(x, q.a), s |-> q.s, r |-> q.r]

\* l < e for a fraction e: with d = e - a, s * sqrt(r) < d.
Sqrt_lt(l, e) ==
    LET d == f64_sub(e, l.a)
        dd == f64_mul(d, d)
    IN  IF l.s = 1
        THEN f64_lt(F64(0), d) /\ f64_lt(l.r, dd)
        ELSE f64_lt(F64(0), d) \/ f64_lt(dd, l.r) \/ (d = F64(0) /\ f64_lt(F64(0), l.r))

\* ------------------------------------------------- math.rs: Ray

Ray_new(start, dir) == [start |-> start, dir |-> dir]

\* ------------------------------------------------- shapes.rs: Sphere

Collision_new(distance, material) == [distance |-> distance, material |-> material]

Sphere_new(center, radius, color) == [center |-> center, radius |-> radius, color |-> color]

\* Sphere::intersect_equation.
Sphere_intersect_equation(self, ray) ==
    LET relative_center == Vec3_sub(self.center, ray.start)
        cx == Vec3_dot(relative_center, ray.dir)
        cc == Vec3_dot(relative_center, relative_center)
        xx == Vec3_dot(ray.dir, ray.dir)
        rr == f64_mul(self.radius, self.radius)
    IN  [relative_center |-> relative_center,
         cx   |-> cx,
         root |-> f64_sub(f64_mul(cx, cx), f64_mul(xx, f64_sub(cc, rr)))]

\* <Sphere as Shape>::ray_intersection. The material of the collision is taken
\* to be the sphere's colour; its normal is left out.
Sphere_ray_intersection(self, ray, include_start) ==
    LET eq == Sphere_intersect_equation(self, ray)
        l == f64_sub_sqrt(eq.cx, Sqrt(eq.root))
    IN  IF f64_lt(eq.root, F64(0)) THEN None
        ELSE IF ~include_start /\ Sqrt_lt(l, EPSILON) THEN None
        ELSE Some(Collision_new(l, self.color))

\* ---------------------------- specification of the sphere intersection

\* Unit directions: along the axes of the plane z = 0, and one oblique.
UnitDirs ==
    {Vec3_new(F64(1), F64(0), F64(0)), Vec3_new(F64(-1), F64(0), F64(0)),
     Vec3_new(F64(0), F64(1), F64(0)), Vec3_new(F64(0), F64(-1), F64(0)),
     Vec3_new(<<3, 5>>, <<4, 5>>, F64(0)), Vec3_new(<<-3, 5>>, <<-4, 5>>, F64(0))}

\* Every sphere with a centre on the integer grid of the plane z = 0 up to
\* SphereMax from the origin and a radius up to MaxRadius, every ray from the
\* origin in a unit direction, inclusive and exclusive.
SphereInit ==
    /\ \E cx, cy \in (-SphereMax)..SphereMax, r \in 1..MaxRadius :
        sphere = Sphere_new(Vec3_new(F64(cx), F64(cy), F64(0)), F64(r), 1)
    /\ \E dir \in UnitDirs : sphere_ray = Ray_new(Vec3_new(F64(0), F64(0), F64(0)), dir)
    /\ sphere_incl \in BOOLEAN
    /\ sphere_hit = None
    /\ SphereRestIdle

\* The call of ray_intersection.
SphereIntersect ==
    /\ sphere_hit = None
    /\ sphere_hit' = Some(Sphere_ray_intersection(sphere, sphere_ray, sphere_incl))
    /\ UNCHANGED <<sphere, sphere_ray, sphere_incl, sphere_rest>>

SphereNext == SphereIntersect

SpecSphere == SphereInit /\ [][SphereNext]_vars

\* ------------------------------------------------- shapes.rs: Collision::cmp

\* -1, 0 or 1 as a fraction is below, at or above zero.
f64_signum(a) == IF a[1] < 0 THEN -1 ELSE IF a[1] = 0 THEN 0 ELSE 1

\* f64::total_cmp of two fractions: -1 for Less, 0 for Equal, 1 for Greater.
f64_total_cmp(a, b) == f64_signum(f64_sub(a, b))

\* The order of a fraction y and w * sqrt(p) for a sign w of -1, 0 or 1.
Sqrt_cmp_scaled(y, w, p) ==
    IF f64_signum(y) # w
    THEN (IF f64_signum(y) < w THEN -1 ELSE 1)
    ELSE w * f64_total_cmp(f64_mul(y, y), p)

\* f64::total_cmp of two distances a + s * sqrt(r). With x the difference of the
\* fractions and d = s2 * sqrt(r2) - s1 * sqrt(r1), the order is that of x and d;
\* when they have the same sign it follows from the order of their squares.
Sqrt_total_cmp(l1, l2) ==
    LET x == f64_sub(l1.a, l2.a)
        d_sign == IF l1.s = l2.s
                  THEN l2.s * f64_total_cmp(l2.r, l1.r)
                  ELSE IF l1.r = F64(0) /\ l2.r = F64(0) THEN 0 ELSE l2.s
        y == f64_sub(f64_mul(x, x), f64_add(l1.r, l2.r))
        p == f64_mul(F64(4), f64_mul(l1.r, l2.r))
        w == IF p = F64(0) THEN 0 ELSE -(l1.s * l2.s)
    IN  IF f64_signum(x) # d_sign
        THEN (IF f64_signum(x) < d_sign THEN -1 ELSE 1)
        ELSE d_sign * Sqrt_cmp_scaled(y, w, p)

\* Collision::cmp.
Collision_cmp(self, other) == Sqrt_total_cmp(self.distance, other.distance)

\* ------------------------------------------------- shapes.rs: impl Shape for [T]

RECURSIVE FilterMap_intersections(_, _, _)
\* self.iter().filter_map(|shape| shape.ray_intersection(ray.clone(), include_start)):
\* the collisions of the members that return one, in the order of the members.
FilterMap_intersections(shapes, ray, include_start) ==
    IF shapes = <<>>
    THEN <<>>
    ELSE Sphere_ray_intersection(Head(shapes), ray, include_start)
             \o FilterMap_intersections(Tail(shapes), ray, include_start)

RECURSIVE MinBy_last(_, _)
\* A mutation of the fold of min_by that keeps the later of two equally near
\* collisions.
MinBy_last(best, rest) ==
    IF rest = <<>>
    THEN best
    ELSE MinBy_last(IF Collision_cmp(best, Head(rest)) >= 0 THEN Head(rest) ELSE best, Tail(rest))

RECURSIVE MinBy_fold(_, _)
\* The fold of Iterator::min_by: the item in hand is replaced only by one that
\* compares less.
MinBy_fold(best, rest) ==
    IF rest = <<>>
    THEN best
    ELSE MinBy_fold(IF Collision_cmp(best, Head(rest)) = 1 THEN Head(rest) ELSE best, Tail(rest))

\* Iterator::min_by(|c1, c2| c1.cmp(c2)).
MinBy(items) == IF items = <<>> THEN None ELSE Some(MinBy_fold(Head(items), Tail(items)))

\* <[T] as Shape>::ray_intersection, for T = Sphere.
Slice_ray_intersection(self, ray, include_start) ==
    MinBy(FilterMap_intersections(self, ray, include_start))

\* ----------------------------- specification of the slice intersection

\* The spheres of a slice: radius one, centres on the x axis up to SliceMax from
\* the origin; the colour tells the members of a slice apart.
SliceSphere(cx, color) == Sphere_new(Vec3_new(F64(cx), F64(0), F64(0)), F64(1), color)

\* The rays of the slice specification: from the origin along the x axis, both
\* ways, and obliquely.
SliceDirs ==
    {Vec3_new(F64(1), F64(0), F64(0)), Vec3_new(F64(-1), F64(0), F64(0)),
     Vec3_new(<<4, 5>>, <<3, 5>>, F64(0))}

\* Every slice of up to MaxShapes such spheres.
SliceInit ==
    /\ \E n \in 0..MaxShapes :
        \E cs \in [1..n -> (-SliceMax)..SliceMax] :
            slice_shapes = [i \in 1..n |-> SliceSphere(cs[i], i)]
    /\ \E dir \in SliceDirs : slice_ray = Ray_new(Vec3_new(F64(0), F64(0), F64(0)), dir)
    /\ slice_incl \in BOOLEAN
    /\ slice_hit = None
    /\ SliceRestIdle

\* The call of ray_intersection on the slice.
SliceIntersect ==
    /\ slice_hit = None
    /\ slice_hit' = Some(Slice_ray_intersection(slice_shapes, slice_ray, slice_incl))
    /\ UNCHANGED <<slice_shapes, slice_ray, slice_incl, slice_rest>>

SliceNext == SliceIntersect

SpecSlice == SliceInit /\ [][SliceNext]_vars

\* ------------------------------------------------- math.rs: more of Vec3

\* The square root of a fraction that is the square of a fraction.
f64_sqrt_exact(a) ==
    Frac(CHOOSE k \in 0..a[1] : k * k = a[1], CHOOSE k \in 1..a[2] : k * k = a[2])

\* f64 / f64, by a value other than zero.
f64_div(a, b) == f64_mul(a, f64_recip(b))

f64_abs(a) == <<Abs(a[1]), a[2]>>

Vec3_cross(self, rhs) ==
    Vec3_new(f64_sub(f64_mul(self[2], rhs[3]), f64_mul(self[3], rhs[2])),
             f64_sub(f64_mul(self[3], rhs[1]), f64_mul(self[1], rhs[3])),
             f64_sub(f64_mul(self[1], rhs[2]), f64_mul(self[2], rhs[1])))

Vec3_squared_magnitude(self) == Vec3_dot(self, self)

\* Vec3::magnitude, of a vector whose length is a fraction.
Vec3_magnitude(self) == f64_sqrt_exact(Vec3_squared_magnitude(self))

Vec3_normalize(self) == Vec3_scale(self, f64_recip(Vec3_magnitude(self)))

Vec3_project_onto(self, dir) == Vec3_scale(dir, f64_div(Vec3_dot(self, dir), Vec3_dot(dir, dir)))

\* Mul<Vec3> for &Mat3x3.
Mat3x3_mul_vec(self, rhs) ==
    Vec3_new(Vec3_dot(self[1], rhs), Vec3_dot(self[2], rhs), Vec3_dot(self[3], rhs))

Ray_point_at(self, scale) == Vec3_add(self.start, Vec3_scale(self.dir, scale))

\* ------------------------------------------------- shapes.rs: TriangleMesh

\* The normal TriangleMesh::new computes for the triangle of vertices a, b, c.
TriangleMesh_normal(a, b, c) == Vec3_normalize(Vec3_cross(Vec3_sub(b, a), Vec3_sub(c, b)))

\* The projection TriangleMesh::new computes for it: None where inverse() returns
\* None, which new() unwraps.
TriangleMesh_projection(a, b, c, normal) ==
    Mat3x3_inverse(Mat3x3_from_col_vectors(Vec3_sub(b, a), Vec3_sub(c, a),
                                           Vec3_project_onto(a, normal)))

\* TriangleMesh::new for a mesh of one triangle with vertex indices 0, 1, 2 and
\* colour index 0: None where new() panics.
TriangleMesh_new(vertices, colors) ==
    LET normal == TriangleMesh_normal(vertices[1], vertices[2], vertices[3])
        projection == TriangleMesh_projection(vertices[1], vertices[2], vertices[3], normal)
    IN  IF projection = None
        THEN None
        ELSE Some([vertices |-> vertices,
                   triangles |-> << <<1, 2, 3>> >>,
                   tri_colors |-> <<1>>,
                   triangle_projections |-> <<projection[1]>>,
                   normals |-> <<normal>>,
                   colors |-> colors])

\* The closure of ray_intersection for triangle i: the distance along the ray at
\* which it meets the triangle, if it does.
TriangleMesh_hit_unculled(self, i, ray, include_start) ==
    LET projection == self.triangle_projections[i]
        start_in_triangle_space == Mat3x3_mul_vec(projection, ray.start)
        ray_in_triangle_space == Mat3x3_mul_vec(projection, ray.dir)
        corner == Mat3x3_mul_vec(projection, self.vertices[self.triangles[i][1]])
        corner_in_triangle_space == Vec3_new(corner[1], corner[2], F64(0))
        minus_epsilon == f64_sub(F64(0), EPSILON)
    IN  IF ray_in_triangle_space[3] = F64(0)
        THEN None
        ELSE LET ray_scale == f64_div(f64_sub(F64(1), start_in_triangle_space[3]),
                                      ray_in_triangle_space[3])
                 uvw == Vec3_sub(Vec3_add(Vec3_scale(ray_in_triangle_space, ray_scale),
                                          start_in_triangle_space),
                                 corner_in_triangle_space)
             IN  IF \/ f64_le(f64_abs(ray_in_triangle_space[3]), EPSILON)
                    \/ f64_le(ray_scale, minus_epsilon)
                    \/ (~include_start /\ f64_le(ray_scale, EPSILON))
                    \/ f64_lt(f64_add(F64(1), EPSILON), f64_add(uvw[1], uvw[2]))
                    \/ f64_lt(uvw[1], minus_epsilon)
                    \/ f64_lt(uvw[2], minus_epsilon)
                 THEN None
                 ELSE Some(<<i, ray_scale>>)

\* The closure, with its first test: a triangle is skipped when the ray does not
\* run against its normal or starts too far down in triangle space.
TriangleMesh_hit(self, i, ray, include_start) ==
    LET start_in_triangle_space == Mat3x3_mul_vec(self.triangle_projections[i], ray.start)
    IN  IF \/ f64_lt(f64_sub(F64(0), EPSILON), Vec3_dot(ray.dir, self.normals[i]))
           \/ f64_lt(start_in_triangle_space[3], f64_sub(F64(-1), EPSILON))
           \/ (~include_start /\ f64_lt(start_in_triangle_space[3], f64_add(F64(-1), EPSILON)))
        THEN None
        ELSE TriangleMesh_hit_unculled(self, i, ray, include_start)

RECURSIVE TriangleMesh_nearest(_, _, _, _)
\* filter_map over the triangles from i on, then min_by on the distance: the
\* first of the nearest.
TriangleMesh_nearest(self, i, ray, include_start) ==
    IF i > Len(self.triangles)
    THEN None
    ELSE LET here == TriangleMesh_hit(self, i, ray, include_start)
             rest == TriangleMesh_nearest(self, i + 1, ray, include_start)
         IN  IF here = None THEN rest
             ELSE IF rest = None THEN here
             ELSE IF f64_total_cmp(here[1][2], rest[1][2]) = 1 THEN rest ELSE here

\* <TriangleMesh as Shape>::ray_intersection. The material of the collision is
\* taken to be the triangle's normal and colour.
TriangleMesh_ray_intersection(self, ray, include_start) ==
    LET nearest_collision == TriangleMesh_nearest(self, 1, ray, include_start)
    IN  IF nearest_collision = None
        THEN None
        ELSE Some(Collision_new(nearest_collision[1][2],
                                [normal |-> self.normals[nearest_collision[1][1]],
                                 color  |-> self.colors[self.tri_colors[nearest_collision[1][1]]]]))

\* ------------------------- specification of the triangle intersection

\* The way the rays come in, as seen from the point aimed at: straight down the
\* normal, and at a slant; both of unit length.
TriApproach(normal) ==
    {normal, Vec3_add(Vec3_scale(normal, <<4, 5>>), Vec3_new(<<3, 5>>, F64(0), F64(0)))}

\* A right triangle with legs of length two in the plane z = h, for every h up to
\* TriMax either side of the world origin, facing up or down; a point of it
\* with barycentric coordinates from 0, 1/2, 1; a ray that starts on the side
\* the normal points to, up to MaxDist away, and points at the point.
TriInit ==
    /\ \E h \in (-TriMax)..TriMax, up \in BOOLEAN, u, v \in 0..2, k \in 1..MaxDist, incl \in BOOLEAN :
        LET a == Vec3_new(F64(0), F64(0), F64(h))
            e1 == Vec3_new(F64(2), F64(0), F64(0))
            e2 == Vec3_new(F64(0), F64(2), F64(0))
            b == Vec3_add(a, IF up THEN e1 ELSE e2)
            c == Vec3_add(a, IF up THEN e2 ELSE e1)
            normal == Vec3_new(F64(0), F64(0), F64(IF up THEN 1 ELSE -1))
            p == Vec3_add(a, Vec3_add(Vec3_scale(Vec3_sub(b, a), <<u, 2>>),
                                      Vec3_scale(Vec3_sub(c, a), <<v, 2>>)))
        IN  /\ u + v <= 2
            /\ tri_vertices = <<a, b, c>>
            /\ tri_point = p
            /\ \E away \in TriApproach(normal) :
                   tri_ray = Ray_new(Vec3_add(p, Vec3_scale(away, F64(k))), Vec3_neg(away))
            /\ tri_incl = incl
    /\ tri_pc = "new"
    /\ tri_mesh = None
    /\ tri_hit = None
    /\ TriRestIdle

\* TriangleMesh::new: the mesh is built, or the thread panics.
TriNew ==
    /\ tri_pc = "new"
    /\ tri_mesh' = TriangleMesh_new(tri_vertices, <<1>>)
    /\ tri_pc' = IF tri_mesh' = None THEN "panicked" ELSE "built"
    /\ UNCHANGED <<tri_vertices, tri_point, tri_ray, tri_incl, tri_hit, tri_rest>>

\* The call of ray_intersection on the mesh.
TriIntersect ==
    /\ tri_pc = "built"
    /\ tri_hit' = TriangleMesh_ray_intersection(tri_mesh[1], tri_ray, tri_incl)
    /\ tri_pc' = "done"
    /\ UNCHANGED <<tri_vertices, tri_point, tri_ray, tri_incl, tri_mesh, tri_rest>>

TriNext == TriNew \/ TriIntersect

SpecTri == TriInit /\ [][TriNext]_vars

\* ------------------------------------------------- scene.rs: Scene::sees_light

Ray_new_unit(start, dir) == Ray_new(start, Vec3_normalize(dir))

RayCollision_new(ray, collision) == [ray |-> ray, collision |-> collision]

\* Shape::intersect_inclusive, for a world that is a Sphere.
Shape_intersect_inclusive(self, ray) ==
    LET c == Sphere_ray_intersection(self, ray, TRUE)
    IN  IF c = None THEN None ELSE Some(RayCollision_new(ray, c[1]))

\* Shape::intersect_exclusive, for a world that is a Sphere.
Shape_intersect_exclusive(self, ray) ==
    LET c == Sphere_ray_intersection(self, ray, FALSE)
    IN  IF c = None THEN None ELSE Some(RayCollision_new(ray, c[1]))

\* l.powi(2) - m < e for a distance l = a + s * sqrt(r): l squared is
\* a * a + r + 2 * a * s * sqrt(r).
Sqrt_powi2_sub_lt(l, m, e) ==
    LET y == f64_sub(f64_add(e, m), f64_add(f64_mul(l.a, l.a), l.r))
        p == f64_mul(F64(4), f64_mul(f64_mul(l.a, l.a), l.r))
        w == IF p = F64(0) THEN 0 ELSE l.s * f64_signum(l.a)
    IN  Sqrt_cmp_scaled(y, w, p) = 1

\* Scene::sees_light.
Scene_sees_light(self, pos) ==
    LET light_relative == Vec3_sub(self.light_pos, pos)
        to_light_ray == Ray_new_unit(pos, light_relative)
        hit == Shape_intersect_inclusive(self.world, to_light_ray)
    IN  ~(/\ hit # None
          /\ Sqrt_powi2_sub_lt(hit[1].collision.distance,
                               Vec3_squared_magnitude(light_relative), EPSILON))

\* ----------------------------------- specification of the shadow test

\* A light on the x axis up to LightMax from the origin, a world of one sphere of
\* the sphere specification, and the origin as the position asked about.
SeesInit ==
    /\ \E lx \in 1..LightMax, cx, cy \in (-SphereMax)..SphereMax, r \in 1..MaxRadius :
        sees_scene = [light_pos |-> Vec3_new(F64(lx), F64(0), F64(0)),
                      world |-> Sphere_new(Vec3_new(F64(cx), F64(cy), F64(0)), F64(r), 1)]
    /\ sees_pos = Vec3_new(F64(0), F64(0), F64(0))
    /\ sees_result = None
    /\ SeesRestIdle

\* The call of sees_light.
SeesLight ==
    /\ sees_result = None
    /\ sees_result' = Some(Scene_sees_light(sees_scene, sees_pos))
    /\ UNCHANGED <<sees_scene, sees_pos, sees_rest>>

SeesNext == SeesLight

SpecSees == SeesInit /\ [][SeesNext]_vars

\* ------------------------------------------------- scene.rs: cast_ray

\* Color::gray, on colours of equal channels: the colour is its brightness,
\* and BLACK is the gray of brightness 0.
Color_gray(brightness) == brightness

\* bounces - 1 on u16 (only evaluated when bounces >= 1).
U16_sub(a, b) == (a - b) % 65536

\* A mutation of the test below that recurses one call too few.
Scene_cast_ray_recurses_late(bounces) == bounces >= 2

\* `if bounces >= 1`: whether the call recurses with a bounce ray.
Scene_cast_ray_recurses(bounces) == bounces >= 1

\* The call that is tracing: the innermost one.
CastTop == cast_stack[Len(cast_stack)]
CastPop == SubSeq(cast_stack, 1, Len(cast_stack) - 1)

\* cast_ray(rand, ray, bounces) for every bounce budget up to MaxBounces. The
\* world and the bounce directions are left open: every intersection test may
\* hit or miss.
CastInit ==
    /\ cast_bounces \in 0..MaxBounces
    /\ cast_stack = <<cast_bounces>>
    /\ cast_hits = <<>>
    /\ cast_lit = <<>>
    /\ cast_result = None
    /\ CastRestIdle

\* intersect_exclusive returns None: the call returns Color::BLACK.
CastMiss ==
    /\ cast_stack # <<>>
    /\ cast_result = None
    /\ cast_hits' = Append(cast_hits, FALSE)
    /\ cast_result' = Some(BLACK)
    /\ cast_stack' = CastPop
    /\ UNCHANGED <<cast_bounces, cast_lit, cast_rest>>

\* A hit with bounces >= 1: the call casts the bounce ray with bounces - 1.
CastBounce ==
    /\ cast_stack # <<>>
    /\ cast_result = None
    /\ Scene_cast_ray_recurses(CastTop)
    /\ cast_hits' = Append(cast_hits, TRUE)
    /\ cast_stack' = Append(cast_stack, U16_sub(CastTop, 1))
    /\ UNCHANGED <<cast_bounces, cast_lit, cast_result, cast_rest>>

\* A hit with no bounce left: the call returns the gray of the direct lighting
\* at the hit (brightness, sees_light and the inverse square of the distance
\* to the light, here any level up to MaxGray).
CastLight ==
    /\ cast_stack # <<>>
    /\ cast_result = None
    /\ ~Scene_cast_ray_recurses(CastTop)
    /\ cast_hits' = Append(cast_hits, TRUE)
    /\ cast_lit' = Append(cast_lit, CastTop)
    /\ \E level \in 0..MaxGray : cast_result' = Some(Color_gray(level))
    /\ cast_stack' = CastPop
    /\ UNCHANGED <<cast_bounces, cast_rest>>

\* `return bounce_color`: a call that recursed returns what the inner call
\* returned.
CastReturn ==
    /\ cast_stack # <<>>
    /\ cast_result # None
    /\ cast_stack' = CastPop
    /\ UNCHANGED <<cast_bounces, cast_hits, cast_lit, cast_result, cast_rest>>

CastNext == CastMiss \/ CastBounce \/ CastLight \/ CastReturn

\* A call that is running keeps running.
SpecCast == CastInit /\ [][CastNext]_vars /\ WF_vars(CastNext)

\* ------------------------------------- scene.rs: DisplayIter, both ends

\* A mutation of DisplayIter::len that leaves out the rest of the first row.
DisplayIter_len_no_start(it) ==
    IF it.y_start = it.y_end /\ it.x_start > it.x_end
    THEN Some(0)
    ELSE IF it.y_start = it.y_end
    THEN Some(it.x_end - it.x_start + 1)
    ELSE IF it.display.x < it.x_start \/ it.y_end < it.y_start + 1
    THEN None
    ELSE Some((it.y_end - it.y_start - 1) * it.display.x + (it.x_end + 1))

\* DisplayIter::len. Some of the value returned, or None where one of its u32
\* subtractions underflows (a panic in a build with overflow checks, a
\* wrapped value in one without).
DisplayIter_len(it) ==
    IF it.y_start = it.y_end /\ it.x_start > it.x_end
    THEN Some(0)
    ELSE IF it.y_start = it.y_end
    THEN Some(it.x_end - it.x_start + 1)
    ELSE IF it.display.x < it.x_start \/ it.y_end < it.y_start + 1
    THEN None
    ELSE LET start  == it.display.x - it.x_start
             height == it.y_end - it.y_start - 1
             end    == it.x_end + 1
         IN  Some(start + height * it.display.x + end)

\* DisplayIter::size_hint, where len returns.
DisplayIter_size_hint(it) == <<DisplayIter_len(it)[1], Some(DisplayIter_len(it)[1])>>

\* A mutation of DisplayIter::next_back that does not move x_end back to the end
\* of the row above.
DisplayIter_next_back_no_wrap(it) ==
    IF it.y_start = it.y_end /\ it.x_start > it.x_end
    THEN [it |-> it, item |-> None]
    ELSE IF it.x_end = 0
    THEN IF it.y_end = 0
         THEN [it   |-> [it EXCEPT !.x_end = 0, !.x_start = 1],
               item |-> Some(<<0, 0>>)]
         ELSE [it   |-> [it EXCEPT !.y_end = @ - 1],
               item |-> Some(<<0, it.y_end>>)]
    ELSE IF it.y_end < it.y_start
    THEN [it |-> it, item |-> None]
    ELSE [it   |-> [it EXCEPT !.x_end = @ - 1],
          item |-> Some(<<it.x_end, it.y_end>>)]

\* DisplayIter::next_back: the new iterator state and the item returned.
DisplayIter_next_back(it) ==
    IF it.y_start = it.y_end /\ it.x_start > it.x_end
    THEN [it |-> it, item |-> None]
    ELSE IF it.x_end = 0
    THEN IF it.y_end = 0
         THEN [it   |-> [it EXCEPT !.x_end = 0, !.x_start = 1],
               item |-> Some(<<0, 0>>)]
         ELSE [it   |-> [it EXCEPT !.x_end = it.display.x - 1, !.y_end = @ - 1],
               item |-> Some(<<0, it.y_end>>)]
    ELSE IF it.y_end < it.y_start
    THEN [it |-> it, item |-> None]
    ELSE [it   |-> [it EXCEPT !.x_end = @ - 1],
          item |-> Some(<<it.x_end, it.y_end>>)]

\* A DisplayIter over every display of 1..MaxW by 1..MaxH pixels.
DIterInit ==
    /\ \E w \in 1..MaxW, h \in 1..MaxH : diter = DisplayIter_new(Display_new(w, h))
    /\ diter_front = <<>>
    /\ diter_back = <<>>
    /\ diter_last = <<>>
    /\ DIterRestIdle

\* A call of next().
DIterNextCall ==
    /\ diter # <<>>
    /\ \E r \in {DisplayIter_next(diter)} :
        /\ diter' = r.it
        /\ diter_front' = diter_front \o r.item
        /\ diter_last' = <<"next", r.item>>
    /\ UNCHANGED <<diter_back, diter_rest>>

\* A call of next_back().
DIterNextBackCall ==
    /\ diter # <<>>
    /\ \E r \in {DisplayIter_next_back(diter)} :
        /\ diter' = r.it
        /\ diter_back' = diter_back \o r.item
        /\ diter_last' = <<"next_back", r.item>>
    /\ UNCHANGED <<diter_front, diter_rest>>

DIterNext == DIterNextCall \/ DIterNextBackCall

SpecDIter == DIterInit /\ [][DIterNext]_vars

\* ------------------------------------------- utils.rs: CartesianProduct

\* The iterators multiplied are iterators over slices (a.iter() of a Vec): the
\* state of one is the sequence of the items it has not yielded yet.
SliceIter_next(s) ==
    IF s = <<>>
    THEN [it |-> s, item |-> None]
    ELSE [it |-> Tail(s), item |-> Some(Head(s))]

\* slice::Iter::size_hint: exact.
SliceIter_size_hint(s) == <<Len(s), Some(Len(s))>>

\* CartesianProduct::new (and cartesian_product, which calls it).
CartesianProduct_new(a, b) ==
    [a_curr |-> SliceIter_next(a).item,
     a_iter |-> SliceIter_next(a).it,
     b_iter |-> b,
     b_curr |-> b]

\* A mutation of CartesianProduct::next that keeps the current item of a when
\* b starts over.
CartesianProduct_next_keep_a(self) ==
    IF SliceIter_next(self.b_curr).item # None
    THEN IF self.a_curr = None
         THEN [it |-> [self EXCEPT !.b_curr = SliceIter_next(self.b_curr).it], item |-> None]
         ELSE [it   |-> [self EXCEPT !.b_curr = SliceIter_next(self.b_curr).it],
               item |-> Some(<<self.a_curr[1], SliceIter_next(self.b_curr).item[1]>>)]
    ELSE LET self1 == [self EXCEPT !.b_curr = SliceIter_next(self.b_iter).it]
             b == SliceIter_next(self.b_iter).item
         IN  IF b = None \/ self1.a_curr = None
             THEN [it |-> self1, item |-> None]
             ELSE [it |-> self1, item |-> Some(<<self1.a_curr[1], b[1]>>)]

\* CartesianProduct::next: the new state and the Option returned.
CartesianProduct_next(self) ==
    IF SliceIter_next(self.b_curr).item # None
    THEN IF self.a_curr = None
         THEN [it |-> [self EXCEPT !.b_curr = SliceIter_next(self.b_curr).it], item |-> None]
         ELSE [it   |-> [self EXCEPT !.b_curr = SliceIter_next(self.b_curr).it],
               item |-> Some(<<self.a_curr[1], SliceIter_next(self.b_curr).item[1]>>)]
    ELSE LET self1 == [self EXCEPT !.b_curr = SliceIter_next(self.b_iter).it,
                                   !.a_curr = SliceIter_next(self.a_iter).item,
                                   !.a_iter = SliceIter_next(self.a_iter).it]
             b == SliceIter_next(self.b_iter).item
         IN  IF b = None \/ self1.a_curr = None
             THEN [it |-> self1, item |-> None]
             ELSE [it |-> self1, item |-> Some(<<self1.a_curr[1], b[1]>>)]

\* CartesianProduct::size_hint (the hints of slice iterators are never None).
CartesianProduct_size_hint(self) ==
    LET bc == SliceIter_size_hint(self.b_curr)
        b  == SliceIter_size_hint(self.b_iter)
        a  == SliceIter_size_hint(self.a_iter)
        min == bc[1] + b[1] * a[1]
    IN  IF bc[2] = None \/ b[2] = None \/ a[2] = None
        THEN <<min, None>>
        ELSE <<min, Some(bc[2][1] + b[2][1] * a[2][1])>>

\* cartesian_product(a.iter(), b.iter()) for every a of up to MaxA items and b
\* of up to MaxB items; the items of a are 1, 2, .. and those of b follow on.
CpInit ==
    /\ \E n \in 0..MaxA, k \in 0..MaxB :
        /\ cp_a = [i \in 1..n |-> i]
        /\ cp_b = [j \in 1..k |-> MaxA + j]
    /\ cp = CartesianProduct_new(cp_a, cp_b)
    /\ cp_out = <<>>
    /\ cp_last = <<>>
    /\ CpRestIdle

\* A call of next().
CpNextCall ==
    /\ cp # <<>>
    /\ \E r \in {CartesianProduct_next(cp)} :
        /\ cp' = r.it
        /\ cp_out' = cp_out \o r.item
        /\ cp_last' = <<r.item>>
    /\ UNCHANGED <<cp_a, cp_b, cp_rest>>

CpNext == CpNextCall

SpecCp == CpInit /\ [][CpNext]_vars

\* --------------------------------- utils.rs: ChunkIter over a sequence

\* ChunkIter::new(0..len, n) for every length up to MaxSeq, 0 included, and
\* every chunk size from 1 to MaxChunk.
CSeqInit ==
    /\ cseq_len \in 0..MaxSeq
    /\ \E n \in 1..MaxChunk : cseq_iter = ChunkIter_new([start |-> 0, end |-> cseq_len], n)
    /\ cseq_out = <<>>
    /\ cseq_last = <<>>
    /\ CSeqRestIdle

\* A call of next().
CSeqNextCall ==
    /\ cseq_iter # <<>>
    /\ \E r \in {ChunkIter_next(cseq_iter)} :
        /\ cseq_iter' = r.ci
        /\ cseq_out' = cseq_out \o r.item
        /\ cseq_last' = <<r.item>>
    /\ UNCHANGED <<cseq_len, cseq_rest>>

CSeqNext == CSeqNextCall

SpecCSeq == CSeqInit /\ [][CSeqNext]_vars

\* ------------------------------------ utils.rs: RangeChunks, any range

\* RangeChunks::size_hint. Some of the pair returned, or None where
\* end - start - 1 underflows usize (a panic in a build with overflow checks,
\* a count near usize::MAX / chunk_size in one without).
RangeChunks_size_hint(rc) ==
    IF rc.start = rc.end
    THEN Some(<<0, Some(0)>>)
    ELSE IF rc.end < rc.start + 1
    THEN None
    ELSE LET count == ((rc.end - rc.start - 1) \div rc.chunk_size) + 1
         IN  Some(<<count, Some(count)>>)

\* RangeChunks::new(s..e, n) for every range with s and e up to MaxSeq, those
\* with s = e and s > e (both empty) included, and every n from 1 to MaxChunk.
RChunksInit ==
    /\ rchunks_range \in (0..MaxSeq) \X (0..MaxSeq)
    /\ \E n \in 1..MaxChunk :
        rchunks = RangeChunks_new(rchunks_range[1], rchunks_range[2], n)
    /\ rchunks_out = <<>>
    /\ rchunks_last = <<>>
    /\ RChunksRestIdle

\* A call of next().
RChunksNextCall ==
    /\ rchunks # <<>>
    /\ \E r \in {RangeChunks_next(rchunks)} :
        /\ rchunks' = r.rc
        /\ rchunks_out' = rchunks_out \o r.item
        /\ rchunks_last' = <<r.item>>
    /\ UNCHANGED <<rchunks_range, rchunks_rest>>

RChunksNext == RChunksNextCall

SpecRChunks == RChunksInit /\ [][RChunksNext]_vars

\* ------------------------------------------------- img/color.rs: Color

\* Color::from_rgb: a Color is the Vec3 of its channels.
Color_from_rgb(r, g, b) == Vec3_new(r, g, b)

\* f64::clamp and f64::floor followed by `as u8` (on a value within 0..=255).
f64_clamp(x, lo, hi) == IF f64_lt(x, lo) THEN lo ELSE IF f64_lt(hi, x) THEN hi ELSE x
f64_floor_as_u8(x) == x[1] \div x[2]

\* A mutation of to_percent_byte that scales by 255.
to_percent_byte_255(x) == f64_floor_as_u8(f64_clamp(f64_mul(x, F64(255)), F64(0), F64(255)))

\* to_percent_byte: (x * 256.).clamp(0., 255.).floor() as u8.
to_percent_byte(x) == f64_floor_as_u8(f64_clamp(f64_mul(x, F64(256)), F64(0), F64(255)))

\* Color::to_rgb_bytes.
Color_to_rgb_bytes(self) ==
    <<to_percent_byte(self[1]), to_percent_byte(self[2]), to_percent_byte(self[3])>>

ChannelValues == {Frac(k, ChanDen) : k \in (-ChanOver)..(ChanDen + ChanOver)}

\* Every color with channels among ChannelValues: stored channels are not
\* clamped.
RgbInit ==
    /\ \E r, g, b \in ChannelValues : rgb_color = Color_from_rgb(r, g, b)
    /\ rgb_bytes = None
    /\ RgbRestIdle

\* The call of to_rgb_bytes.
RgbToBytes ==
    /\ rgb_color # <<>>
    /\ rgb_bytes = None
    /\ rgb_bytes' = Some(Color_to_rgb_bytes(rgb_color))
    /\ UNCHANGED <<rgb_color, rgb_rest>>

RgbNext == RgbToBytes

SpecRgb == RgbInit /\ [][RgbNext]_vars

\* ------------------------------------------- img/writer/qoi.rs: QOIWriter

QOI_OP_RUN == 192
QOI_OP_INDEX == 0
QOI_OP_DIFF == 64
QOI_OP_LUMA == 128
QOI_OP_RGB == 254

\* QOIColor::from(&Color).
QOIColor_from(value) ==
    With(Color_to_rgb_bytes(value), LAMBDA bytes : [r |-> bytes[1], g |-> bytes[2], b |-> bytes[3]])

\* QOIColor::default().
QOIColor_default == [r |-> 0, g |-> 0, b |-> 0]

\* QOIColor::hash, in u8 arithmetic: 255u8.wrapping_mul(11) is 245.
QOIColor_hash(self) ==
    LET U8(n) == n % 256
    IN  U8(U8(U8(U8(self.r * 3) + U8(self.g * 5)) + U8(self.b * 7)) + U8(255 * 11)) % 64

\* QOIColor::difference: the bytes of the opcode, <<>> for ColorDiff::Large.
QOIColor_difference(self, other) ==
    LET dr == self.r - other.r
        dg == self.g - other.g
        db == self.b - other.b
        drdg == dr - dg
        dbdg == db - dg
    IN  IF dr \in (-2)..1 /\ dg \in (-2)..1 /\ db \in (-2)..1
        THEN <<QOI_OP_DIFF + ((dr + 2) % 4) * 16 + ((dg + 2) % 4) * 4 + ((db + 2) % 4)>>
        ELSE IF dg \in (-32)..31 /\ drdg \in (-8)..6 /\ dbdg \in (-8)..6
        THEN <<QOI_OP_LUMA + ((dg + 32) % 64), ((drdg + 8) % 16) * 16 + ((dbdg + 8) % 16)>>
        ELSE <<>>

\* u32::to_be_bytes.
U32_to_be_bytes(n) ==
    <<(n \div 16777216) % 256, (n \div 65536) % 256, (n \div 256) % 256, n % 256>>

\* A mutation of the test below that lets a run grow one pixel longer.
QOIWriter_run_full_late(run) == run = 63

\* `if run == 62`: the run is written out and started over.
QOIWriter_run_full(run) == run = 62

\* The opcode of a run: QOI_OP_RUN | (run - 1).
QOIWriter_run_op(run) == <<QOI_OP_RUN + (run - 1)>>

\* The body of write_to's loop for one pixel: the new index, prev_color and
\* run, and the slices written.
QOIWriter_pixel(index, prev_color, run, px) ==
    With(QOIColor_from(px), LAMBDA color :
        IF color = prev_color
        THEN IF QOIWriter_run_full(run + 1)
             THEN [index |-> index, prev |-> prev_color, run |-> 0,
                   out |-> <<QOIWriter_run_op(run + 1)>>]
             ELSE [index |-> index, prev |-> prev_color, run |-> run + 1, out |-> <<>>]
        ELSE LET flushed == IF run # 0 THEN <<QOIWriter_run_op(run)>> ELSE <<>>
                 slot == QOIColor_hash(color) + 1
             IN  IF index[slot] = color
                 THEN [index |-> index, prev |-> color, run |-> 0,
                       out |-> flushed \o <<<<QOI_OP_INDEX + QOIColor_hash(color)>>>>]
                 ELSE [index |-> [index EXCEPT ![slot] = color], prev |-> color, run |-> 0,
                       out |-> flushed \o
                               <<IF QOIColor_difference(color, prev_color) # <<>>
                                 THEN QOIColor_difference(color, prev_color)
                                 ELSE <<QOI_OP_RGB, color.r, color.g, color.b>>>>])

\* The color whose to_rgb_bytes are r, g, b.
ByteColor(r, g, b) == Color_from_rgb(Frac(r, 256), Frac(g, 256), Frac(b, 256))

\* Black, a color a small difference from black, one a medium difference from
\* black, and red, a large difference from each.
Palette == <<ByteColor(0, 0, 0), ByteColor(1, 1, 1), ByteColor(10, 12, 10), ByteColor(255, 0, 0)>>

\* Runs of equal pixels: of one pixel, two short of the longest, one short of
\* it, and the longest; in black or in red.
RunLengths == {1, MaxRun - 2, MaxRun - 1, MaxRun}
RunColors == {1, 4}

RECURSIVE RunsOf(_)
\* The pixels of a sequence of <<color, length>> runs.
RunsOf(segs) ==
    IF segs = <<>>
    THEN <<>>
    ELSE [i \in 1..segs[1][2] |-> Palette[segs[1][1]]] \o RunsOf(Tail(segs))

\* The pixel sequences encoded.
QoiData ==
    UNION {[1..n -> {Palette[i] : i \in DOMAIN Palette}] : n \in 0..MaxPixels}
    \cup {RunsOf(segs) : segs \in UNION {[1..k -> RunColors \X RunLengths] : k \in 1..MaxSegs}}

\* An image of one row, or of two rows where the number of pixels is even, and
\* a QOIWriter made from it.
QoiInit ==
    /\ \E data \in QoiData, h \in 1..2 :
        /\ Len(data) % h = 0
        /\ qoi_image = [width |-> Len(data) \div h, height |-> h, data |-> data]
    /\ qoi_pc = "start"
    /\ qoi_px = 0
    /\ qoi_index = <<>>
    /\ qoi_prev = <<>>
    /\ qoi_run = 0
    /\ qoi_out = <<>>
    /\ QoiRestIdle

\* write_to up to its loop: the header, and the loop's variables.
QoiHeader ==
    /\ qoi_pc = "start"
    /\ qoi_out' = << <<113, 111, 105, 102>>,
                     U32_to_be_bytes(qoi_image.width),
                     U32_to_be_bytes(qoi_image.height),
                     <<3, 0>> >>
    /\ qoi_index' = [i \in 1..64 |-> QOIColor_default]
    /\ qoi_prev' = QOIColor_default
    /\ qoi_run' = 0
    /\ qoi_pc' = "pixels"
    /\ UNCHANGED <<qoi_image, qoi_px, qoi_rest>>

\* One pass of the loop over data().
QoiPixel ==
    /\ qoi_pc = "pixels"
    /\ qoi_px < Len(qoi_image.data)
    /\ \E r \in {QOIWriter_pixel(qoi_index, qoi_prev, qoi_run, qoi_image.data[qoi_px + 1])} :
        /\ qoi_index' = r.index
        /\ qoi_prev' = r.prev
        /\ qoi_run' = r.run
        /\ qoi_out' = qoi_out \o r.out
    /\ qoi_px' = qoi_px + 1
    /\ UNCHANGED <<qoi_image, qoi_pc, qoi_rest>>

\* After the loop: the run still pending, and the end marker.
QoiFinish ==
    /\ qoi_pc = "pixels"
    /\ qoi_px = Len(qoi_image.data)
    /\ qoi_out' = qoi_out \o (IF qoi_run # 0 THEN <<QOIWriter_run_op(qoi_run)>> ELSE <<>>)
                          \o << <<0, 0, 0, 0, 0, 0, 0, 1>> >>
    /\ qoi_pc' = "done"
    /\ UNCHANGED <<qoi_image, qoi_px, qoi_index, qoi_prev, qoi_run, qoi_rest>>

QoiNext == QoiHeader \/ QoiPixel \/ QoiFinish

SpecQoi == QoiInit /\ [][QoiNext]_vars

\* ------------------------------------------------- math.rs: &Mat3x3 * &Mat3x3

\* Mul<&Mat3x3> for &Mat3x3: the three vectors of dot products are handed to
\* from_col_vectors.
Mat3x3_mul(self, rhs) ==
    LET rt == Mat3x3_transpose(rhs)
    IN  Mat3x3_from_col_vectors(
            Vec3_new(Vec3_dot(self[1], rt[1]), Vec3_dot(self[1], rt[2]), Vec3_dot(self[1], rt[3])),
            Vec3_new(Vec3_dot(self[2], rt[1]), Vec3_dot(self[2], rt[2]), Vec3_dot(self[2], rt[3])),
            Vec3_new(Vec3_dot(self[3], rt[1]), Vec3_dot(self[3], rt[2]), Vec3_dot(self[3], rt[3])))

\* The identity with k added at row i, column j.
MulShear(i, j, k) ==
    [r \in 1..3 |-> [c \in 1..3 |->
        IF r = i /\ c = j THEN F64(k + (IF i = j THEN 1 ELSE 0))
        ELSE IF r = c THEN F64(1) ELSE F64(0)]]

\* The matrices multiplied: the identity (k = 0) and every shear and stretch
\* of it by up to MulMax.
MulMats == {MulShear(i, j, k) : i \in 1..3, j \in 1..3, k \in 0..MulMax}

MulVecs == {Vec3_new(F64(1), F64(0), F64(0)), Vec3_new(F64(0), F64(1), F64(0)),
            Vec3_new(F64(1), F64(2), F64(3))}

MulInit ==
    /\ mul_a \in MulMats
    /\ mul_b \in MulMats
    /\ mul_v \in MulVecs
    /\ mul_product = None
    /\ mul_assigned = None
    /\ MulRestIdle

\* &a * &b.
MulProduct ==
    /\ mul_a # <<>>
    /\ mul_product = None
    /\ mul_product' = Some(Mat3x3_mul(mul_a, mul_b))
    /\ UNCHANGED <<mul_a, mul_b, mul_v, mul_assigned, mul_rest>>

\* a *= &b, on a copy of a.
MulAssign ==
    /\ mul_a # <<>>
    /\ mul_assigned = None
    /\ mul_assigned' = Some(Mat3x3_mul_assign(mul_a, mul_b))
    /\ UNCHANGED <<mul_a, mul_b, mul_v, mul_product, mul_rest>>

MulNext == MulProduct \/ MulAssign

SpecMul == MulInit /\ [][MulNext]_vars

\* ------------------------------------------- img/image.rs: at and at_mut

\* Image::at.
Image_at(img, x, y) == img.data[Image_at_index(img, x, y)]

\* A fresh image of every size up to MaxW by MaxH and every coordinate in range.
ImgInit ==
    /\ \E w \in 1..MaxW, h \in 1..MaxH :
        /\ img_buf = Image_zeros(Display_new(w, h))
        /\ img_xy \in (0..(w - 1)) \X (0..(h - 1))
    /\ img_stored = None
    /\ img_read = None
    /\ ImgRestIdle

\* *img_buf.at_mut(x, y) = color, for a color that is not black.
ImgStore ==
    /\ img_buf # <<>>
    /\ img_stored = None
    /\ \E level \in 1..(MaxGray + 1) :
        /\ img_buf' = Image_store(img_buf, img_xy[1], img_xy[2], Color_gray(level))
        /\ img_stored' = Some(Color_gray(level))
    /\ UNCHANGED <<img_xy, img_read, img_rest>>

\* img_buf.at(x, y), after the store.
ImgRead ==
    /\ img_stored # None
    /\ img_read = None
    /\ img_read' = Some(Image_at(img_buf, img_xy[1], img_xy[2]))
    /\ UNCHANGED <<img_buf, img_xy, img_stored, img_rest>>

ImgNext == ImgStore \/ ImgRead

SpecImg == ImgInit /\ [][ImgNext]_vars

\* ------------------------------------------------------------ C1

RECURSIVE Flatten(_)
Flatten(ss) == IF ss = <<>> THEN <<>> ELSE Head(ss) \o Flatten(Tail(ss))

Range(s) == {s[i] : i \in DOMAIN s}

NoDuplicates(s) == \A i, j \in DOMAIN s : i # j => s[i] # s[j]

Pixels(d) == (0..(d.x - 1)) \X (0..(d.y - 1))

\* The indices a range start..end holds.
RangeSet(r) == r[1]..(r[2] - 1)

\* C1: the chunks ChunkIter cuts from the pixel sequence of a W x H display, and
\* the ranges RangeChunks cuts from 0..W*H, are pairwise disjoint at every point of
\* the iteration, hold only coordinates (indices) of the display, and once next()
\* has returned None their union is the whole display: every pixel is in exactly
\* one chunk.
C1_ChunksPartitionDisplay ==
    LET d == chunk_iter.iter.iter.display
        flat == Flatten(chunks_out)
    IN  /\ NoDuplicates(flat)
        /\ Range(flat) \subseteq Pixels(d)
        /\ chunk_end => Range(flat) = Pixels(d)
        /\ \A i, j \in DOMAIN ranges_out :
               i # j => RangeSet(ranges_out[i]) \cap RangeSet(ranges_out[j]) = {}
        /\ \A i \in DOMAIN ranges_out : RangeSet(ranges_out[i]) \subseteq 0..(Display_size(d) - 1)
        /\ range_end => UNION {RangeSet(ranges_out[i]) : i \in DOMAIN ranges_out}
                            = 0..(Display_size(d) - 1)

\* A display of several rows cut into several chunks, the last one short, with
\* both iterators exhausted.
C1_Witness ==
    /\ chunk_end /\ range_end
    /\ chunk_iter.iter.iter.display.y >= 2
    /\ Len(chunks_out) >= 2
    /\ Len(chunks_out[Len(chunks_out)]) < chunk_iter.chunk_size
    /\ Len(ranges_out) = Len(chunks_out)
\* ------------------------------------------------------------ C9

PopsMade == {wi \in Workers \X (1..Display_size(RenderDisplay)) : wi[2] <= Len(got[wi[1]])}

ChunkOf(wi) == got[wi[1]][wi[2]]

\* The pixels handed out so far.
HandedOut == UNION {Range(ChunkOf(wi)) : wi \in PopsMade}

\* Pixel k (from 0) of the row-major sequence: x runs fastest.
RowMajor(d, k) == <<k % d.x, k \div d.x>>

\* C2: under every interleaving each chunk is handed to exactly one worker: the
\* chunks the workers hold are non-empty and pairwise disjoint, the pixels handed
\* out so far are the first ones of the row-major sequence with none skipped, a
\* worker that found the cursor exhausted found it so only after every pixel was
\* handed out, and whoever is at the cursor holds its lock.
C2_EachChunkToOneWorker ==
    /\ \A a, b \in PopsMade : a # b => Range(ChunkOf(a)) \cap Range(ChunkOf(b)) = {}
    /\ \A a \in PopsMade : ChunkOf(a) # <<>> /\ NoDuplicates(ChunkOf(a))
    /\ HandedOut = {RowMajor(RenderDisplay, k) : k \in 0..(Cardinality(HandedOut) - 1)}
    /\ saw_end # {} => HandedOut = Pixels(RenderDisplay)
    /\ \A w \in Workers : pc[w] = "locked" => mutex = w

\* Both workers have popped a chunk and one has found the cursor exhausted.
C2_Witness ==
    /\ \A w \in Workers : Len(got[w]) >= 1
    /\ saw_end # {}

\* ------------------------------------------------------------ C3

\* The cells of a buffer that hold a value other than the background.
WrittenCells(img) == {i \in DOMAIN img.data : img.data[i] # BLACK}

\* C3: no cell holds a written (non-background) value in two workers' buffers, and
\* a worker writes only pixels of chunks it popped itself: the pixels it has
\* written are pixels of its chunks, and the written cells of its buffer are the
\* cells of those pixels.
C3_BuffersDisjoint ==
    /\ \A v, w \in Workers : v # w => WrittenCells(bufs[v]) \cap WrittenCells(bufs[w]) = {}
    /\ \A w \in Workers :
        /\ wrote[w] \subseteq UNION {Range(got[w][i]) : i \in DOMAIN got[w]}
        /\ WrittenCells(bufs[w]) \subseteq
               {Image_at_mut_index(bufs[w], q[1], q[2]) : q \in wrote[w]}
        /\ \A v \in Workers : v # w => wrote[v] \cap wrote[w] = {}

\* Two workers have each written a non-background value.
C3_Witness ==
    \E v, w \in Workers : v # w /\ WrittenCells(bufs[v]) # {} /\ WrittenCells(bufs[w]) # {}

\* ------------------------------------------------------------ C4

\* Buffers that are background except on pairwise disjoint sets of cells.
PairwiseDisjoint(buffers) ==
    \A a, b \in DOMAIN buffers :
        a # b => WrittenCells(buffers[a]) \cap WrittenCells(buffers[b]) = {}

\* The union of the buffers: a cell holds the value of the buffer that wrote it.
UnionOf(buffers) ==
    [i \in DOMAIN buffers[1].data |->
        IF \E b \in DOMAIN buffers : buffers[b].data[i] # BLACK
        THEN buffers[CHOOSE b \in DOMAIN buffers : buffers[b].data[i] # BLACK].data[i]
        ELSE BLACK]

VisitOrders(n) == {f \in [1..n -> 1..n] : \A i, j \in 1..n : i # j => f[i] # f[j]}

\* C4: the merge of buffers written on pairwise disjoint cells is their union,
\* whatever the order the buffers are visited in.
C4_MergeIsUnion ==
    (merge_out # None /\ PairwiseDisjoint(merge_in)) =>
        /\ merge_out[1].data = UnionOf(merge_in)
        /\ \A f \in VisitOrders(Len(merge_in)) :
               Merge([b \in DOMAIN merge_in |-> merge_in[f[b]]]).data = merge_out[1].data

\* Two buffers, each written where the other is background, have been merged.
C4_Witness ==
    /\ merge_out # None
    /\ PairwiseDisjoint(merge_in)
    /\ WrittenCells(merge_in[1]) # {}
    /\ WrittenCells(merge_in[2]) # {}
    /\ merge_in[1].data[1] = BLACK

\* ------------------------------------------------------------ C5

MergeStarted == main_pc \in {"merge", "done"}

\* C5: the merge starts only after every worker has been joined: once it has
\* started every worker has exited and been joined, no worker holds the lock, and
\* no step changes the cursor or a worker's buffer.
C5_MergeAfterJoin ==
    /\ [](MergeStarted =>
            /\ joined = NumWorkers
            /\ \A w \in Workers : pc[w] = "exited"
            /\ mutex = 0)
    /\ [][MergeStarted => (cursor' = cursor /\ bufs' = bufs /\ pc' = pc /\ got' = got)]_vars

\* The merge has run on buffers written by two workers.
C5_Witness ==
    /\ main_pc = "done"
    /\ \A w \in Workers : wrote[w] # {}

\* ------------------------------------------------------------ C6

AnyPanic == \E w \in Workers : pc[w] = "panicked"

RenderComplete ==
    /\ main_pc = "done"
    /\ image # None
    /\ \A w \in Workers : pc[w] = "exited" /\ w \in saw_end
    /\ UNION {wrote[w] : w \in Workers} = Pixels(RenderDisplay)

\* C6: under fair scheduling a render in which no worker panics completes: every
\* worker finds the cursor exhausted and exits, the polling loop ends, the image is
\* merged, and every pixel of the display has been rendered by some worker.
C6_RenderCompletes == <>(AnyPanic \/ RenderComplete)

\* A render has completed without a panic.
C6_Witness == RenderComplete /\ ~AnyPanic

\* ------------------------------------------------------------ C7

\* C7: once a worker has panicked no merged image is ever produced, and under
\* fair scheduling the render ends in the fatal error of the join.
C7_PanicIsFatal ==
    /\ [](AnyPanic => (image = None /\ ~MergeStarted))
    /\ [](main_pc = "fatal" => AnyPanic)
    /\ (AnyPanic ~> main_pc = "fatal")

\* The render ended in a fatal error after another worker completed a chunk.
C7_Witness ==
    /\ main_pc = "fatal"
    /\ progress >= 1

\* ------------------------------------------------------------ C8

\* C8: a render of the same scene gives the same final pixel buffer in every run:
\* the image of a second run equals the golden image of the first.
C8_SameBufferEveryRun ==
    (main_pc = "done" /\ golden # None) => image = golden

\* ------------------------------------------------------------ C10

RECURSIVE WordsFrom(_, _)
\* The first k words of a generator in the given state.
WordsFrom(state, k) ==
    IF k = 0
    THEN <<>>
    ELSE <<Lcg_next(state).word>> \o WordsFrom(Lcg_next(state).state, k - 1)

RECURSIVE StateAfter(_, _)
StateAfter(state, k) == IF k = 0 THEN state ELSE StateAfter(Lcg_next(state).state, k - 1)

\* C10: every thread has its own generator: the words a thread has seen are the
\* first words of a generator created from that thread's own seed, and its state
\* is that generator's state, whatever the other threads drew in between.
C10_ThreadOwnsGenerator ==
    \A w \in Workers :
        IF seen[w] = <<>>
        THEN thread_lcg[w] = None /\ tl_seed[w] = None
        ELSE /\ thread_lcg[w] # None /\ tl_seed[w] # None
             /\ seen[w] = WordsFrom(Lcg_from_seed(tl_seed[w][1]), Len(seen[w]))
             /\ thread_lcg[w][1] = StateAfter(Lcg_from_seed(tl_seed[w][1]), Len(seen[w]))

\* Two threads whose generators were created from different seeds have both drawn
\* words, one of them several.
C10_Witness ==
    \E v, w \in Workers :
        /\ v # w
        /\ Len(seen[v]) >= 2 /\ Len(seen[w]) >= 1
        /\ tl_seed[v] # tl_seed[w]

\* ------------------------------------------------------------ C11

\* The determinant, by expansion along the first row.
Det(m) ==
    f64_add(f64_sub(f64_mul(m[1][1], f64_sub(f64_mul(m[2][2], m[3][3]), f64_mul(m[2][3], m[3][2]))),
                    f64_mul(m[1][2], f64_sub(f64_mul(m[2][1], m[3][3]), f64_mul(m[2][3], m[3][1])))),
            f64_mul(m[1][3], f64_sub(f64_mul(m[2][1], m[3][2]), f64_mul(m[2][2], m[3][1]))))

\* C11: in exact arithmetic inverse() returns None exactly for the matrices of
\* determinant zero, and otherwise a matrix whose product with the argument, on
\* either side, is the identity.
C11_InverseIsInverse ==
    mat_result # None =>
        /\ (mat_result[1] = None) <=> (Det(mat) = F64(0))
        /\ mat_result[1] # None =>
               /\ Mat3x3_mul_assign(mat, mat_result[1][1]) = Mat3x3_identity
               /\ Mat3x3_mul_assign(mat_result[1][1], mat) = Mat3x3_identity

\* An invertible matrix whose first column is zero above the last row and whose
\* second pivot is zero once the rows are swapped: a row swap happens before the
\* loop and another inside it.
C11_Witness ==
    /\ mat_result # None
    /\ mat_result[1] # None
    /\ mat[1][1] = F64(0)
    /\ mat[2][1] = F64(0)
    /\ mat[3][2] = F64(0)

\* ------------------------------------------------------------ C12

\* The least distance a hit may have: EPSILON, or 0 when include_start.
NearestAllowed(include_start) == IF include_start THEN F64(0) ELSE EPSILON

\* The two roots of the quadratic of a unit ray, the nearer first.
SphereRoots(eq) == <<f64_sub_sqrt(eq.cx, Sqrt(eq.root)), f64_add_sqrt(eq.cx, Sqrt(eq.root))>>

\* C12: ray_intersection returns None when the quadratic has no real root, never
\* returns a distance below EPSILON (below 0 when include_start), and otherwise
\* returns the nearest root that is at least that far.
C12_SphereNearestRoot ==
    sphere_hit # None =>
        LET eq == Sphere_intersect_equation(sphere, sphere_ray)
            least == NearestAllowed(sphere_incl)
            roots == SphereRoots(eq)
            ok == {k \in 1..2 : ~Sqrt_lt(roots[k], least)}
            hit == sphere_hit[1]
        IN  /\ f64_lt(eq.root, F64(0)) => hit = None
            /\ hit # None => ~Sqrt_lt(hit[1].distance, least)
            /\ (~f64_lt(eq.root, F64(0)) /\ 1 \in ok) => hit = Some(Collision_new(roots[1], sphere.color))

\* The part of C12 that holds of the code: None without a real root; in an
\* exclusive test a distance of at least EPSILON; and the nearer root whenever a
\* collision is returned.
C12_SphereNearRootOnly ==
    sphere_hit # None =>
        LET eq == Sphere_intersect_equation(sphere, sphere_ray)
            hit == sphere_hit[1]
        IN  /\ f64_lt(eq.root, F64(0)) => hit = None
            /\ (hit # None /\ ~sphere_incl) => ~Sqrt_lt(hit[1].distance, EPSILON)
            /\ hit # None => hit[1].distance = SphereRoots(eq)[1]

\* An inclusive test of a sphere that lies wholly behind the ray's origin returns
\* a collision.
C12_Witness ==
    /\ sphere_hit # None
    /\ sphere_hit[1] # None
    /\ sphere_incl
    /\ Sqrt_lt(SphereRoots(Sphere_intersect_equation(sphere, sphere_ray))[2], F64(0))

\* ------------------------------------------------------------ C13

\* What member i of the slice returns for the ray and include_start of the call.
MemberHit(i) == Sphere_ray_intersection(slice_shapes[i], slice_ray, slice_incl)

\* C13: the slice returns None exactly when every member returns None for the
\* same ray and include_start, and otherwise the collision of the earliest
\* member among those whose distance is the least.
C13_SliceNearestMember ==
    slice_hit # None =>
        LET hitting == {i \in DOMAIN slice_shapes : MemberHit(i) # None}
            nearest == {i \in hitting :
                           \A j \in hitting : Collision_cmp(MemberHit(i)[1], MemberHit(j)[1]) <= 0}
        IN  /\ (slice_hit[1] = None) <=> (hitting = {})
            /\ hitting # {} =>
                   /\ nearest # {}
                   /\ slice_hit[1] = MemberHit(CHOOSE i \in nearest : \A j \in nearest : i <= j)

\* A slice of several members whose first member is hit but is not the one
\* returned: a later member is nearer.
C13_Witness ==
    /\ slice_hit # None
    /\ slice_hit[1] # None
    /\ Len(slice_shapes) >= 2
    /\ slice_hit[1][1].material # 1
    /\ MemberHit(1) # None

\* ------------------------------------------------------------ C14

\* Two points are within EPSILON of each other, on every axis.
WithinEpsilon(p, q) == \A k \in 1..3 : f64_le(f64_abs(f64_sub(p[k], q[k])), EPSILON)

\* C14: a ray from the side the normal points to, aimed at a point of the
\* triangle, gets a hit, and the hit is at that point: the mesh can be built,
\* and once ray_intersection has returned it has returned a collision whose
\* distance along the ray leads to the point.
C14_TriangleHitAtPoint ==
    /\ tri_pc # "panicked"
    /\ tri_pc = "done" =>
           /\ tri_hit # None
           /\ WithinEpsilon(Ray_point_at(tri_ray, tri_hit[1].distance), tri_point)

\* What holds of the code: a collision that is returned is at the point aimed at.
C14_TriangleHitIsAtPoint ==
    (tri_pc = "done" /\ tri_hit # None) =>
        WithinEpsilon(Ray_point_at(tri_ray, tri_hit[1].distance), tri_point)

\* A slanted ray from the normal's side is reported to hit at the point it is
\* aimed at.
C14_Witness ==
    /\ tri_pc = "done"
    /\ tri_hit # None
    /\ tri_ray.dir[1] # F64(0)
    /\ Ray_point_at(tri_ray, tri_hit[1].distance) = tri_point

\* ------------------------------------------------------------ C15

\* The ray sees_light casts, and what the world returns for it.
ShadowRay == Ray_new_unit(sees_pos, Vec3_sub(sees_scene.light_pos, sees_pos))

ShadowHit == Shape_intersect_inclusive(sees_scene.world, ShadowRay)

LightDistanceSquared == Vec3_squared_magnitude(Vec3_sub(sees_scene.light_pos, sees_pos))

\* C15: sees_light returns false only if the world is hit at a distance that is
\* not negative and whose square is below the squared distance of the light,
\* within EPSILON; when nothing is hit it returns true.
C15_ShadowOnlyBeforeLight ==
    sees_result # None =>
        /\ sees_result[1] = FALSE =>
               /\ ShadowHit # None
               /\ ~Sqrt_lt(ShadowHit[1].collision.distance, F64(0))
               /\ Sqrt_powi2_sub_lt(ShadowHit[1].collision.distance, LightDistanceSquared, EPSILON)
        /\ ShadowHit = None => sees_result[1] = TRUE

\* What holds of the code: false exactly when the world reports a hit whose
\* squared distance is below the light's, within EPSILON, whatever its sign.
C15_ShadowBySquaredDistance ==
    sees_result # None =>
        (sees_result[1] = FALSE <=>
            /\ ShadowHit # None
            /\ Sqrt_powi2_sub_lt(ShadowHit[1].collision.distance, LightDistanceSquared, EPSILON))

\* The world reports a hit beyond the light, and sees_light returns true.
C15_Witness ==
    /\ sees_result = Some(TRUE)
    /\ ShadowHit # None
    /\ ~Sqrt_lt(ShadowHit[1].collision.distance, F64(0))

\* ------------------------------------------------------------ C16
\* The outermost call of cast_ray has returned.
CastReturned == cast_stack = <<>> /\ cast_result # None

\* C16: cast_ray(ray, bounces = b) terminates for every b >= 0; along the way it
\* makes at most b + 1 exclusive intersection tests and is at most b calls
\* deep below the outermost one; as soon as one test hits nothing the color
\* returned is black and no further test is made; and the direct lighting is
\* evaluated at most once, by the call whose bounce budget is 0, after b + 1 hits.
C16_CastRayTerminates ==
    /\ <>CastReturned
    /\ [](/\ Len(cast_hits) <= cast_bounces + 1
          /\ Len(cast_stack) <= cast_bounces + 1
          /\ \A i \in 1..Len(cast_hits) :
                ~cast_hits[i] => /\ i = Len(cast_hits)
                                 /\ cast_result = Some(BLACK)
                                 /\ cast_lit = <<>>
          /\ Len(cast_lit) <= 1
          /\ \A i \in 1..Len(cast_lit) : cast_lit[i] = 0
          /\ cast_lit # <<>> => /\ Len(cast_hits) = cast_bounces + 1
                                /\ \A i \in 1..Len(cast_hits) : cast_hits[i])

\* A call with a budget of two bounces or more has returned the lighting of
\* its last hit, which is not black.
C16_Witness ==
    /\ CastReturned
    /\ cast_bounces >= 2
    /\ cast_lit = <<0>>
    /\ Len(cast_hits) = cast_bounces + 1
    /\ cast_result # Some(BLACK)

\* ------------------------------------------------------------ C17
RECURSIVE DisplayIter_count(_)
\* The number of items that further next() calls yield before the first None.
DisplayIter_count(it) ==
    With(DisplayIter_next(it),
         LAMBDA r : IF r.item = None THEN 0 ELSE 1 + DisplayIter_count(r.it))

\* C17: after any sequence of next() and next_back() calls on a DisplayIter over
\* a display of at least 1 by 1, no subtraction of len() underflows, len() is
\* the number of items further next() calls still yield (0 once exhausted),
\* and size_hint() is (len, Some(len)).
C17_LenIsRemaining ==
    diter # <<>> =>
        /\ DisplayIter_len(diter) # None
        /\ DisplayIter_len(diter) = Some(DisplayIter_count(diter))
        /\ DisplayIter_size_hint(diter)
             = <<DisplayIter_count(diter), Some(DisplayIter_count(diter))>>

\* Calls at both ends have been made on a display of more than one row and
\* column, rows are left at both ends, and len() is the count of what is left.
C17_Witness ==
    /\ diter # <<>>
    /\ diter.display.x >= 2 /\ diter.display.y >= 3
    /\ Len(diter_front) >= 1 /\ Len(diter_back) >= 1
    /\ diter.y_start < diter.y_end
    /\ DisplayIter_len(diter) = Some(DisplayIter_count(diter))
    /\ DisplayIter_count(diter)
         = diter.display.x * diter.display.y - Len(diter_front) - Len(diter_back)

\* ------------------------------------------------------------ C18
\* C18: forward iteration of a DisplayIter over a W x H display yields the
\* coordinates in row-major order, x fastest: the k-th item (from 0) is
\* (k mod W, k div W), there are never more than W * H of them, and next()
\* returns None only once all W * H have been yielded (and from then on).
C18_ForwardRowMajor ==
    (diter # <<>> /\ diter_back = <<>>) =>
        /\ Len(diter_front) <= diter.display.x * diter.display.y
        /\ \A k \in 0..(Len(diter_front) - 1) :
              diter_front[k + 1] = <<k % diter.display.x, k \div diter.display.x>>
        /\ (diter_last # <<>> /\ diter_last[2] = None)
              => Len(diter_front) = diter.display.x * diter.display.y
        /\ Len(diter_front) = diter.display.x * diter.display.y
              => DisplayIter_next(diter).item = None

\* A display of several rows and columns has been iterated forward to its end
\* and next() has then returned None.
C18_Witness ==
    /\ diter # <<>>
    /\ diter_back = <<>>
    /\ diter.display.x >= 2 /\ diter.display.y >= 2
    /\ Len(diter_front) = diter.display.x * diter.display.y
    /\ diter_last = <<"next", None>>

\* ------------------------------------------------------------ C19
\* The pairs of a and b ordered by the index in a and then the index in b.
PairsInOrder(a, b) ==
    [p \in 1..(Len(a) * Len(b)) |->
        <<a[((p - 1) \div Len(b)) + 1], b[((p - 1) % Len(b)) + 1]>>]

IsPrefix(s, t) == Len(s) <= Len(t) /\ \A i \in 1..Len(s) : s[i] = t[i]

\* C19: cartesian_product(a, b) yields the pairs (a_i, b_j) ordered by i and
\* then j, each once and |a| * |b| in all; next() returns None only once all
\* of them have been yielded, and then on every call.
C19_PairsInOrderThenNone ==
    cp # <<>> =>
        /\ IsPrefix(cp_out, PairsInOrder(cp_a, cp_b))
        /\ (cp_last = <<None>>) => cp_out = PairsInOrder(cp_a, cp_b)
        /\ cp_out = PairsInOrder(cp_a, cp_b) => CartesianProduct_next(cp).item = None

\* The product of two iterators of several items has been iterated to its end
\* and next() has then returned None.
C19_Witness ==
    /\ cp # <<>>
    /\ Len(cp_a) >= 2 /\ Len(cp_b) >= 2
    /\ cp_out = PairsInOrder(cp_a, cp_b)
    /\ cp_last = <<None>>

\* ------------------------------------------------------------ C20
RECURSIVE CartesianProduct_count(_)
\* The number of pairs that further next() calls yield before the first None.
CartesianProduct_count(self) ==
    With(CartesianProduct_next(self),
         LAMBDA r : IF r.item = None THEN 0 ELSE 1 + CartesianProduct_count(r.it))

\* C20: at every point of the iteration of cartesian_product(a, b), for a and
\* b of any length from 0, size_hint() is (r, Some(r)) for the number r of
\* pairs that next() will still yield.
C20_SizeHintIsRemaining ==
    (cp # <<>> /\ cp_last # <<None>>) =>
        CartesianProduct_size_hint(cp)
            = <<CartesianProduct_count(cp), Some(CartesianProduct_count(cp))>>

\* What holds instead: the hint is exact, until next() first returns None,
\* when a has at least one item.
C20_SizeHintExactForNonEmptyA ==
    (cp # <<>> /\ cp_last # <<None>> /\ cp_a # <<>>) =>
        CartesianProduct_size_hint(cp)
            = <<CartesianProduct_count(cp), Some(CartesianProduct_count(cp))>>

\* size_hint() is asked of the product of an empty a and a non-empty b.
C20_Witness ==
    /\ cp # <<>>
    /\ cp_a = <<>> /\ cp_b # <<>>
    /\ cp_last = <<>>
    /\ CartesianProduct_count(cp) = 0
    /\ CartesianProduct_size_hint(cp) = <<Len(cp_b), Some(Len(cp_b))>>

\* ------------------------------------------------------------ C21
\* C21: the chunks a ChunkIter of chunk size n >= 1 has yielded, concatenated,
\* are the items of the sequence so far in their order, and the whole sequence
\* once next() has returned None; every chunk but the last has n items, the
\* last between 1 and n, none is empty, and an empty sequence yields no chunk.
C21_ChunksConcatenateToSequence ==
    cseq_iter # <<>> =>
        LET flat == Flatten(cseq_out)
            n == cseq_iter.chunk_size
        IN  /\ Len(flat) <= cseq_len
            /\ \A k \in 1..Len(flat) : flat[k] = k - 1
            /\ cseq_last = <<None>> => Len(flat) = cseq_len
            /\ \A i \in 1..Len(cseq_out) :
                  /\ Len(cseq_out[i]) >= 1
                  /\ Len(cseq_out[i]) <= n
                  /\ (i < Len(cseq_out) \/ Len(flat) < cseq_len) => Len(cseq_out[i]) = n
            /\ cseq_len = 0 => cseq_out = <<>>

\* A sequence has been cut into several chunks, the last one short, and next()
\* has then returned None.
C21_Witness ==
    /\ cseq_iter # <<>>
    /\ cseq_last = <<None>>
    /\ Len(cseq_out) >= 3
    /\ Len(cseq_out[Len(cseq_out)]) < cseq_iter.chunk_size
    /\ Len(cseq_out[1]) = cseq_iter.chunk_size
    /\ Len(Flatten(cseq_out)) = cseq_len

\* ------------------------------------------------------------ C22
RECURSIVE RangeChunks_count(_)
\* The number of sub-ranges that further next() calls yield before the first None.
RangeChunks_count(rc) ==
    With(RangeChunks_next(rc),
         LAMBDA r : IF r.item = None THEN 0 ELSE 1 + RangeChunks_count(r.rc))

\* The sub-ranges yielded so far are consecutive from s, non-empty, of length n
\* except possibly the last, and reach e once next() has returned None.
RangeChunksConsecutive ==
    LET out == rchunks_out
        n == rchunks.chunk_size
    IN  /\ out # <<>> => out[1][1] = rchunks_range[1]
        /\ \A i \in 1..Len(out) :
              /\ out[i][1] < out[i][2]
              /\ out[i][2] - out[i][1] <= n
              /\ i < Len(out) => (out[i][2] - out[i][1] = n /\ out[i + 1][1] = out[i][2])
              /\ out[i][2] < rchunks_range[2] => out[i][2] - out[i][1] = n
        /\ (rchunks_last = <<None>> /\ out # <<>>) => out[Len(out)][2] = rchunks_range[2]
        /\ rchunks_last = <<None>> => RangeChunks_next(rchunks).item = None

\* size_hint() is exactly the number of sub-ranges still to come.
RangeChunksHintExact ==
    RangeChunks_size_hint(rchunks)
        = Some(<<RangeChunks_count(rchunks), Some(RangeChunks_count(rchunks))>>)

\* C22: RangeChunks::new(s..e, n) with n >= 1 yields consecutive, non-empty,
\* non-overlapping sub-ranges from s to e, each of length n except possibly the
\* last; before every next() call size_hint() is the exact number of sub-ranges
\* still to come; and after a None every later next() returns None.
C22_RangeChunksExact ==
    rchunks # <<>> => (RangeChunksConsecutive /\ RangeChunksHintExact)

\* What holds instead: the same for the ranges with s <= e, and for the others
\* everything but the size hint.
C22_RangeChunksExactForward ==
    rchunks # <<>> =>
        /\ RangeChunksConsecutive
        /\ rchunks_range[1] <= rchunks_range[2] => RangeChunksHintExact

\* size_hint() is asked of the chunks of a range whose start is above its end.
C22_Witness ==
    /\ rchunks # <<>>
    /\ rchunks_range[1] > rchunks_range[2]
    /\ rchunks_last = <<None>>
    /\ rchunks_out = <<>>
    /\ RangeChunks_size_hint(rchunks) = None

\* ------------------------------------------------------------ C24
\* C24: to_rgb_bytes converts each channel c on its own: the byte is 0 for
\* c <= 0, 255 for c >= 1 and floor(256 * c) in between, it is always within
\* 0..255, and it is non-decreasing in c.
C24_BytesClampedFloor ==
    rgb_bytes # None =>
        /\ \A i \in 1..3 :
              LET c == rgb_color[i]
                  byte == rgb_bytes[1][i]
              IN  /\ byte \in 0..255
                  /\ c[1] <= 0 => byte = 0
                  /\ c[1] >= c[2] => byte = 255
                  /\ (0 < c[1] /\ c[1] < c[2]) => byte = (256 * c[1]) \div c[2]
        /\ \A i, j \in 1..3 :
              f64_le(rgb_color[i], rgb_color[j]) => rgb_bytes[1][i] <= rgb_bytes[1][j]

\* A color with one channel below 0, one strictly within 0..1 whose 256-fold is
\* not a whole number, and one above 1 has been converted.
C24_Witness ==
    /\ rgb_bytes # None
    /\ rgb_color[1][1] < 0
    /\ 0 < rgb_color[2][1] /\ rgb_color[2][1] < rgb_color[2][2] /\ (256 * rgb_color[2][1]) % rgb_color[2][2] # 0
    /\ rgb_color[3][1] > rgb_color[3][2]
    /\ rgb_bytes[1][1] = 0 /\ rgb_bytes[1][3] = 255

\* ------------------------------------------------------------ C23
\* A standard QOI decoder, as the format defines it: pixels are RGBA, the
\* previous pixel starts as (0, 0, 0, 255), the index as 64 zero pixels, and
\* the slot (3r + 5g + 7b + 11a) mod 64 is set for every decoded pixel.
QoiPixelHash(px) == (3 * px.r + 5 * px.g + 7 * px.b + 11 * px.a) % 64

RECURSIVE QoiDecodeFrom(_, _, _, _, _, _)
\* The RGB triples of the n pixels decoded from position p of the bytes.
QoiDecodeFrom(bytes, p, n, px, index, run) ==
    IF n = 0
    THEN <<>>
    ELSE IF run > 0 \/ p > Len(bytes)
    THEN <<<<px.r, px.g, px.b>>>>
            \o QoiDecodeFrom(bytes, p, n - 1, px, index, IF run > 0 THEN run - 1 ELSE 0)
    ELSE LET b1 == bytes[p]
             b2 == bytes[p + 1]
             vg == (b1 % 64) - 32
             chunk ==
                 IF b1 = 254
                 THEN [px |-> [px EXCEPT !.r = bytes[p + 1], !.g = bytes[p + 2], !.b = bytes[p + 3]],
                       p |-> p + 4, run |-> 0]
                 ELSE IF b1 = 255
                 THEN [px |-> [r |-> bytes[p + 1], g |-> bytes[p + 2],
                               b |-> bytes[p + 3], a |-> bytes[p + 4]],
                       p |-> p + 5, run |-> 0]
                 ELSE IF b1 \div 64 = 0
                 THEN [px |-> index[b1 + 1], p |-> p + 1, run |-> 0]
                 ELSE IF b1 \div 64 = 1
                 THEN [px |-> [px EXCEPT !.r = (@ + ((b1 \div 16) % 4) - 2) % 256,
                                         !.g = (@ + ((b1 \div 4) % 4) - 2) % 256,
                                         !.b = (@ + (b1 % 4) - 2) % 256],
                       p |-> p + 1, run |-> 0]
                 ELSE IF b1 \div 64 = 2
                 THEN [px |-> [px EXCEPT !.r = (@ + vg - 8 + (b2 \div 16)) % 256,
                                         !.g = (@ + vg) % 256,
                                         !.b = (@ + vg - 8 + (b2 % 16)) % 256],
                       p |-> p + 2, run |-> 0]
                 ELSE [px |-> px, p |-> p + 1, run |-> b1 % 64]
         IN  <<<<chunk.px.r, chunk.px.g, chunk.px.b>>>>
                \o QoiDecodeFrom(bytes, chunk.p, n - 1, chunk.px,
                                 [index EXCEPT ![QoiPixelHash(chunk.px) + 1] = chunk.px],
                                 chunk.run)

\* The pixels a standard decoder reads from a whole file: the header is 14
\* bytes, with the width and the height big-endian after the magic.
QoiDecode(bytes) ==
    LET BE(i) == ((bytes[i] * 256 + bytes[i + 1]) * 256 + bytes[i + 2]) * 256 + bytes[i + 3]
    IN  QoiDecodeFrom(bytes, 15, BE(5) * BE(9),
                      [r |-> 0, g |-> 0, b |-> 0, a |-> 255],
                      [i \in 1..64 |-> [r |-> 0, g |-> 0, b |-> 0, a |-> 0]], 0)

\* The to_rgb_bytes triples of the image's pixels in stored order.
QoiPixels == [i \in 1..Len(qoi_image.data) |-> Color_to_rgb_bytes(qoi_image.data[i])]

\* C23: what QOIWriter writes is lossless for every image: a standard QOI
\* decoder reads back exactly the to_rgb_bytes triples of the image's pixels in
\* stored order.
C23_QoiLossless ==
    qoi_pc = "done" => QoiDecode(Flatten(qoi_out)) = QoiPixels

\* The encoder's index and the decoder's differ from the start: the encoder's
\* slots hold opaque black, the decoder's transparent black. An image is read
\* back as written as long as no pixel other than the first run is black.
C23_QoiLosslessWithoutBlack ==
    (qoi_pc = "done"
        /\ \A i \in 1..Len(qoi_image.data) :
              QOIColor_from(qoi_image.data[i]) = QOIColor_default
                  => \A j \in 1..i : QOIColor_from(qoi_image.data[j]) = QOIColor_default)
    => QoiDecode(Flatten(qoi_out)) = QoiPixels

\* An image of at least five pixels with a black pixel after a pixel of
\* another color has been written out, and is not read back as written.
C23_Witness ==
    /\ qoi_pc = "done"
    /\ Len(qoi_image.data) >= 5
    /\ QOIColor_from(qoi_image.data[1]) # QOIColor_default
    /\ QOIColor_from(qoi_image.data[2]) = QOIColor_default
    /\ QoiDecode(Flatten(qoi_out)) # QoiPixels

\* ------------------------------------------------------------ C30
\* The opcodes written so far: the slices after the four of the header, the
\* end marker left out.
QoiOps ==
    IF qoi_pc = "done"
    THEN SubSeq(qoi_out, 5, Len(qoi_out) - 1)
    ELSE SubSeq(qoi_out, 5, Len(qoi_out))

\* A run opcode is a slice of the one byte with both top bits set.
IsRunOp(op) == Len(op) = 1 /\ op[1] >= QOI_OP_RUN

RECURSIVE OpsPixels(_)
\* The pixels a sequence of opcodes stands for: the length of every run, one
\* for every other opcode.
OpsPixels(ops) ==
    IF ops = <<>>
    THEN 0
    ELSE (IF IsRunOp(Head(ops)) THEN Head(ops)[1] - QOI_OP_RUN + 1 ELSE 1) + OpsPixels(Tail(ops))

\* C30: while QOIWriter encodes, the pending run is within 0..61 between pixels;
\* every run opcode written encodes a length from 1 to 62 and is neither 0xFE
\* nor 0xFF; the pending run is written before any other opcode and before the
\* end marker, so that the opcodes written stand for every pixel taken but
\* those of the pending run, and for width * height pixels at the end.
C30_RunsBounded ==
    qoi_pc \in {"pixels", "done"} =>
        /\ qoi_run \in 0..61
        /\ \A i \in 1..Len(QoiOps) :
              IsRunOp(QoiOps[i]) => /\ QoiOps[i][1] - QOI_OP_RUN + 1 \in 1..62
                                    /\ QoiOps[i][1] \notin {254, 255}
        /\ qoi_pc = "pixels" => OpsPixels(QoiOps) + qoi_run = qoi_px
        /\ qoi_pc = "done" =>
              /\ OpsPixels(QoiOps) = qoi_image.width * qoi_image.height
              /\ qoi_out[Len(qoi_out)] = <<0, 0, 0, 0, 0, 0, 0, 1>>

\* An image with a run of more than 62 equal pixels after a pixel of another
\* color has been written out: a full run opcode and a shorter one were written.
C30_Witness ==
    /\ qoi_pc = "done"
    /\ \E i, j, k \in 1..Len(QoiOps) :
          /\ i < j /\ j < k
          /\ ~IsRunOp(QoiOps[i])
          /\ QoiOps[j] = <<253>>
          /\ IsRunOp(QoiOps[k]) /\ QoiOps[k] # <<253>>
    /\ OpsPixels(QoiOps) = qoi_image.width * qoi_image.height

\* ------------------------------------------------------------ C25
\* prev * 0x5DEECE66D + 11 in u64 arithmetic, and its low 48 and 49 bits.
LcgStepSum(prev) == WrappingAdd(WrappingMul(prev, LCG_MULTIPLIER), LCG_INCREMENT)
Mod2Pow48(a) == <<a[1], a[2], a[3], a[4], a[5], a[6], 0, 0>>
Mod2Pow49(a) == <<a[1], a[2], a[3], a[4], a[5], a[6], a[7] % 2, 0>>

\* Generator g has just drawn a word.
LcgDrew(g) == Len(lcg_out'[g]) = Len(lcg_out[g]) + 1

\* C25: the Lcg is a 48-bit generator: after every draw the state is
\* (previous state * 0x5DEECE66D + 11) mod 2^48, so the state is below 2^48 in
\* every reachable state, and next() returns bits 16..47 of the new state.
C25_Lcg48Bit ==
    /\ [](\A g \in DOMAIN lcg : lcg[g] = Mod2Pow48(lcg[g]))
    /\ [][\A g \in DOMAIN lcg :
            LcgDrew(g) => /\ lcg'[g] = Mod2Pow48(LcgStepSum(lcg[g]))
                          /\ lcg_out'[g][Len(lcg_out'[g])]
                               = <<lcg'[g][3], lcg'[g][4], lcg'[g][5], lcg'[g][6]>>]_vars

\* What holds instead: the modulus is 2 << 48 = 2^49, the state is below 2^49,
\* and the word is bits 16..47 of it.
C25_Lcg49Bit ==
    /\ [](\A g \in DOMAIN lcg : lcg[g] = Mod2Pow49(lcg[g]))
    /\ [][\A g \in DOMAIN lcg :
            LcgDrew(g) => /\ lcg'[g] = Mod2Pow49(LcgStepSum(lcg[g]))
                          /\ lcg_out'[g][Len(lcg_out'[g])]
                               = <<lcg'[g][3], lcg'[g][4], lcg'[g][5], lcg'[g][6]>>]_vars

\* A generator has drawn a word and its state has bit 48 set.
C25_Witness ==
    \E g \in DOMAIN lcg : lcg_out[g] # <<>> /\ lcg[g][7] = 1

\* ------------------------------------------------------------ C26
\* The standard matrix product: entry (i, j) is row i of a times column j of b.
MatrixProduct(a, b) ==
    [i \in 1..3 |-> [j \in 1..3 |->
        f64_add(f64_add(f64_mul(a[i][1], b[1][j]), f64_mul(a[i][2], b[2][j])),
                f64_mul(a[i][3], b[3][j]))]]

\* C26: &a * &b is the standard matrix product, the matrix that a *= &b leaves
\* in a, so that &(&a * &b) * v = &a * (&b * v) for every vector v; and a
\* matrix times its inverse() is the identity.
C26_ProductIsMatrixProduct ==
    /\ mul_product # None =>
          /\ mul_product[1] = MatrixProduct(mul_a, mul_b)
          /\ Mat3x3_mul_vec(mul_product[1], mul_v)
               = Mat3x3_mul_vec(mul_a, Mat3x3_mul_vec(mul_b, mul_v))
          /\ Mat3x3_inverse(mul_a) # None
               => Mat3x3_mul(mul_a, Mat3x3_inverse(mul_a)[1]) = Mat3x3_identity
    /\ (mul_product # None /\ mul_assigned # None) => mul_product = mul_assigned

\* What holds instead: &a * &b is the transpose of the standard product, which
\* is what a *= &b leaves in a; a matrix times its inverse() is the identity,
\* its own transpose.
C26_ProductIsTransposed ==
    /\ mul_product # None =>
          /\ mul_product[1] = Mat3x3_transpose(MatrixProduct(mul_a, mul_b))
          /\ Mat3x3_inverse(mul_a) # None
               => Mat3x3_mul(mul_a, Mat3x3_inverse(mul_a)[1]) = Mat3x3_identity
    /\ mul_assigned # None => mul_assigned[1] = MatrixProduct(mul_a, mul_b)

\* Both products of two matrices have been computed and differ.
C26_Witness ==
    /\ mul_product # None
    /\ mul_assigned # None
    /\ mul_product # mul_assigned
    /\ mul_assigned[1] = MatrixProduct(mul_a, mul_b)

\* ------------------------------------------------------------ C27
\* The change-of-basis matrix of the triangle has no inverse.
TriSingular ==
    TriangleMesh_projection(tri_vertices[1], tri_vertices[2], tri_vertices[3],
                            TriangleMesh_normal(tri_vertices[1], tri_vertices[2], tri_vertices[3]))
        = None

\* C27: degeneracy in a mesh never surfaces as an error: TriangleMesh::new does
\* not panic when a triangle's change-of-basis matrix is singular (here a
\* triangle whose plane passes through the world origin); the triangle is built
\* and is simply never hit by ray_intersection.
C27_SingularTriangleBuilt ==
    (tri_pc \notin {"idle", "new"} /\ TriSingular) =>
        /\ tri_pc # "panicked"
        /\ tri_mesh # None
        /\ tri_pc = "done" => tri_hit = None

\* What holds instead: new panics exactly for the singular triangles, and
\* builds every other one.
C27_SingularTrianglePanics ==
    tri_pc \notin {"idle", "new"} => (TriSingular <=> tri_pc = "panicked")

\* TriangleMesh::new has been called for a triangle in a plane through the
\* world origin, and has panicked.
C27_Witness ==
    /\ tri_pc = "panicked"
    /\ TriSingular
    /\ tri_vertices[1][3] = F64(0)

\* ------------------------------------------------------------ C28
\* The coordinates in range of the image.
ImgCoords == (0..(img_buf.width - 1)) \X (0..(img_buf.height - 1))

\* C28: the image buffer uses one vertical convention for writing and reading:
\* after a color is stored through at_mut(x, y), at(x, y) returns that color
\* and every other cell of the image is unchanged; distinct coordinates address
\* distinct cells within the buffer.
C28_ReadBackWhatWasStored ==
    img_buf # <<>> =>
        /\ img_read # None => img_read = img_stored
        /\ img_stored # None =>
              \A c \in ImgCoords : c # img_xy => Image_at(img_buf, c[1], c[2]) = BLACK
        /\ \A c, d \in ImgCoords :
              /\ Image_at_mut_index(img_buf, c[1], c[2]) \in 1..Len(img_buf.data)
              /\ Image_at_index(img_buf, c[1], c[2]) \in 1..Len(img_buf.data)
              /\ c # d => /\ Image_at_mut_index(img_buf, c[1], c[2]) # Image_at_mut_index(img_buf, d[1], d[2])
                          /\ Image_at_index(img_buf, c[1], c[2]) # Image_at_index(img_buf, d[1], d[2])

\* What holds instead: at and at_mut count rows from opposite ends. The color
\* stored through at_mut(x, y) is read back by at(x, height - 1 - y), every
\* other cell is unchanged, and each of the two addresses distinct cells of the
\* buffer for distinct coordinates.
C28_ReadBackMirrored ==
    img_buf # <<>> =>
        /\ img_stored # None =>
              \A c \in ImgCoords :
                  Image_at(img_buf, c[1], c[2])
                    = IF c = <<img_xy[1], img_buf.height - 1 - img_xy[2]>> THEN img_stored[1] ELSE BLACK
        /\ \A c, d \in ImgCoords :
              /\ Image_at_mut_index(img_buf, c[1], c[2]) \in 1..Len(img_buf.data)
              /\ Image_at_index(img_buf, c[1], c[2]) \in 1..Len(img_buf.data)
              /\ c # d => /\ Image_at_mut_index(img_buf, c[1], c[2]) # Image_at_mut_index(img_buf, d[1], d[2])
                          /\ Image_at_index(img_buf, c[1], c[2]) # Image_at_index(img_buf, d[1], d[2])

\* A color has been stored in an image of several rows and at(x, y) has then
\* returned black.
C28_Witness ==
    /\ img_buf # <<>>
    /\ img_buf.height >= 2 /\ img_buf.width >= 2
    /\ img_stored # None
    /\ img_read = Some(BLACK)

\* ------------------------------------------------------------ C29
\* C29: for any interleaving of next() and next_back() calls on a DisplayIter
\* over a W x H display, the items returned from the two ends are pairwise
\* distinct coordinates of the display, y_start <= y_end in every reachable
\* state, a None from either end comes only once all W * H coordinates have been
\* returned, and from then on both ends return None.
C29_EndsNeverCross ==
    diter # <<>> =>
        LET returned == diter_front \o diter_back
            exhausted == Range(returned) = Pixels(diter.display)
        IN  /\ NoDuplicates(returned)
            /\ Range(returned) \subseteq Pixels(diter.display)
            /\ diter.y_start <= diter.y_end
            /\ (diter_last # <<>> /\ diter_last[2] = None) => exhausted
            /\ exhausted <=> DisplayIter_next(diter).item = None
            /\ exhausted <=> DisplayIter_next_back(diter).item = None

\* On a display of several rows and columns items have been taken from both
\* ends, row ends crossed at both, until the ends met and a call returned None.
C29_Witness ==
    /\ diter # <<>>
    /\ diter.display.x >= 2 /\ diter.display.y >= 3
    /\ Len(diter_front) > diter.display.x
    /\ Len(diter_back) > diter.display.x
    /\ Len(diter_front) + Len(diter_back) = diter.display.x * diter.display.y
    /\ diter_last # <<>> /\ diter_last[2] = None

====
